---------------------------- MODULE Spec2Model ----------------------------
(***************************************************************************)
(* A model of the trad scraper: the pipeline engine (ScraperUseCases),    *)
(* the in-memory pipe (CollectedData), the entity model (Summit, Route,   *)
(* Post, GeoPosition, name normalization), the MERGE filter and the       *)
(* MergingPipeDecorator.                                                   *)
(*                                                                         *)
(* Python lists are sequences; Python ids are 0-based, so the id of the   *)
(* n-th element of a sequence is n-1.  A name is the sequence of the code *)
(* points of its characters; the empty sequence is the empty string and   *)
(* also stands for None wherever the code only tests truthiness.          *)
(***************************************************************************)
EXTENDS Integers, Sequences, FiniteSets, TLC

VARIABLES
    \* ScraperUseCases.produce_routedb
    stages,             \* FilterFactory._stages: per stage the list of filter classes
    uc_pc,              \* position inside produce_routedb
    stage_idx,          \* enumerate() index of the stage being run (0-based)
    filter_idx,         \* number of filters of the current stage already executed
    pipe,               \* local variable `pipe` (a pipe handle)
    previous_pipe,      \* local variable `previous_pipe`
    created_pipes,      \* handles returned by PipeFactory.create_pipe, in order
    instantiated,       \* filters created by iter_filter_stages, in order
    executed,           \* execute_filter calls, in order, with their arguments
    \* MergeFilter.execute_filter
    input_pipe,         \* the CollectedData the filter reads
    output_pipe,        \* the CollectedData the filter writes
    merged_summit_data, \* MergeFilter._merged_summit_data
    mf_pc,              \* position inside execute_filter
    mf_next,            \* index into iter_summits() of the next summit to merge
    mf_last,            \* what the last merge_entity call did (observation only)
    \* Summit.enrich and MergingPipeDecorator
    dec_summits,        \* MergingPipeDecorator._summits
    dec_calls,          \* number of calls made so far
    dec_last,           \* the last call: its arguments, the state before it, its outcome
    \* CollectedData driven through the Pipe interface
    cd_pipe,            \* the CollectedData instance
    cd_calls,           \* the add_* calls made so far: arguments and outcome
    \* Sqlite3Database and the file it writes
    database,           \* _db_handle, the destination file and the statements issued
    db_last,            \* the last call on the boundary or run of the WRITE filter
    \* TeufelsturmDataFilter._perform_scan, writing into cd_pipe
    str_hash,           \* hash() on the peak names, as this interpreter computes it
    added_peak_name_hashes, \* TeufelsturmDataFilter._added_peak_name_hashes
    ts_pages,           \* the pages scanned so far: what parse_page returned
    \* MergingPipeDecorator with routes and posts (its _summits is dec_summits)
    dec_routes,         \* MergingPipeDecorator._routes
    dec_posts,          \* MergingPipeDecorator._posts
    delegate,           \* the calls made on the delegate pipe, in order
    dec_accepted,       \* the add_or_enrich_route / add_post calls that returned normally
    \* UniqueIdentifier
    nn_name,            \* the name that is normalized
    identifiers         \* the UniqueIdentifier objects created so far, in order

ucVars == <<stages, uc_pc, stage_idx, filter_idx, pipe, previous_pipe,
            created_pipes, instantiated, executed>>
mfVars == <<input_pipe, output_pipe, merged_summit_data, mf_pc, mf_next, mf_last>>
decVars == <<dec_summits, dec_calls, dec_last>>
cdVars == <<cd_pipe, cd_calls>>
dbVars == <<database, db_last>>
tsVars == <<str_hash, added_peak_name_hashes, ts_pages>>
dpVars == <<dec_routes, dec_posts, delegate, dec_accepted>>
nnVars == <<nn_name, identifiers>>
vars == <<ucVars, mfVars, decVars, cdVars, dbVars, tsVars, dpVars, nnVars>>

-----------------------------------------------------------------------------
(* Bounds of the model *)

MaxStages == 3
MaxStageFilters == 2
\* summits an input pipe of the runs on summits holds at most
MaxSummits == 3
\* summits an input pipe of the runs on routes and posts holds at most
MaxRouteRunSummits == 2
\* summits a MergingPipeDecorator is handed at most
MaxCalls == 3
\* entities (summits and routes together) an input pipe of the runs on graded routes holds at most
MaxGradedPipeSize == 5
\* entities (summits, routes and posts together) an input pipe of the runs on posts holds at most
MaxPipeSize == 7
\* entities an input pipe of the runs of the validation filter holds at most
MaxValidatedPipeSize == 5
\* add_* calls made on the CollectedData driven through the Pipe interface
MaxPipeCalls == 4
\* entities an input pipe of the runs of the WRITE filter holds at most
MaxWrittenPipeSize == 3
\* connections a Sqlite3Database driven through its interface opens at most
MaxConnections == 2
\* statements (besides the PRAGMAs of connect) issued on them at most
MaxStatements == 3
\* pages that one run of the teufelsturm filter scans
MaxPages == 3
\* characters of a name that is normalized
MaxNameLen == 4
\* UniqueIdentifier objects created from one name, each from the one before
MaxIdentifiers == 2
\* add_or_enrich_summit, add_or_enrich_route and add_post calls on one MergingPipeDecorator
MaxDecoratorCalls == 4

-----------------------------------------------------------------------------
(* Generic helpers for Python list operations *)

Range(s) == {s[i] : i \in 1..Len(s)}

\* list.index-like: position of the first element equal to x, 0 if there is none
FirstIndex(s, x) ==
    IF \E i \in 1..Len(s) : s[i] = x
    THEN CHOOSE i \in 1..Len(s) : s[i] = x /\ \A j \in 1..(i - 1) : s[j] # x
    ELSE 0

\* s[i] = x
ReplaceAt(s, i, x) == SubSeq(s, 1, i - 1) \o <<x>> \o SubSeq(s, i + 1, Len(s))

\* del s[i]
RemoveAt(s, i) == SubSeq(s, 1, i - 1) \o SubSeq(s, i + 1, Len(s))

\* list.remove(x) inside suppress(ValueError): drops the first element that
\* compares equal to x, leaves the list alone if there is none
ListRemove(s, x) == IF FirstIndex(s, x) = 0 THEN s ELSE RemoveAt(s, FirstIndex(s, x))

\* list(dict.fromkeys(s)): drops every repetition, keeps the first occurrences in order
RECURSIVE DictFromKeys(_)
DictFromKeys(s) ==
    IF s = <<>> THEN <<>>
    ELSE LET init == DictFromKeys(SubSeq(s, 1, Len(s) - 1))
             last == s[Len(s)]
         IN IF last \in Range(init) THEN init ELSE Append(init, last)

RECURSIVE Flatten(_)
Flatten(ss) == IF ss = <<>> THEN <<>> ELSE Head(ss) \o Flatten(Tail(ss))

-----------------------------------------------------------------------------
(* The pipeline engine: ScraperUseCases.produce_routedb *)

\* The shapes a FilterFactory._stages list can take: 1..MaxStages stages of
\* 0..MaxStageFilters filters each.  A filter class is named by its place.
StageConfigs ==
    {[k \in 1..n |-> [i \in 1..cnt[k] |-> <<k, i>>]] :
        n \in 1..MaxStages, cnt \in [1..MaxStages -> 0..MaxStageFilters]}

\* AllFiltersFactory.get_stage_count
get_stage_count == Len(stages)

\* PipeFactory.create_pipe: a fresh CollectedData; its handle is its creation number
create_pipe == Len(created_pipes) + 1

ucInit ==
    /\ stages \in StageConfigs
    /\ uc_pc = "start"
    /\ stage_idx = 0
    /\ filter_idx = 0
    /\ pipe = 0
    /\ previous_pipe = 0
    /\ created_pipes = <<>>
    /\ instantiated = <<>>
    /\ executed = <<>>

\* produce_routedb up to the loop: the pipe the first stage reads
ucStart ==
    /\ uc_pc = "start"
    /\ pipe' = create_pipe
    /\ created_pipes' = Append(created_pipes, create_pipe)
    /\ uc_pc' = "next_stage"
    /\ UNCHANGED <<stages, stage_idx, filter_idx, previous_pipe, instantiated, executed>>

\* a slip of the loop head: the stage writes into the pipe it reads
ucNextStage_SamePipe ==
    /\ uc_pc = "next_stage"
    /\ stage_idx < Len(stages)
    /\ instantiated' = instantiated \o stages[stage_idx + 1]
    /\ previous_pipe' = pipe
    /\ pipe' = pipe
    /\ filter_idx' = 0
    /\ uc_pc' = "run_filters"
    /\ UNCHANGED <<stages, stage_idx, executed, created_pipes>>

\* One pass of the generator iter_filter_stages and the head of the loop body:
\* the filters of the stage are instantiated, previous_pipe = pipe, pipe = create_pipe()
ucNextStage ==
    /\ uc_pc = "next_stage"
    /\ stage_idx < Len(stages)
    /\ instantiated' = instantiated \o stages[stage_idx + 1]
    /\ previous_pipe' = pipe
    /\ pipe' = create_pipe
    /\ created_pipes' = Append(created_pipes, create_pipe)
    /\ filter_idx' = 0
    /\ uc_pc' = "run_filters"
    /\ UNCHANGED <<stages, stage_idx, executed>>

\* The generator is exhausted: produce_routedb returns
ucFinish ==
    /\ uc_pc = "next_stage"
    /\ stage_idx = Len(stages)
    /\ uc_pc' = "done"
    /\ UNCHANGED <<stages, stage_idx, filter_idx, pipe, previous_pipe,
                   created_pipes, instantiated, executed>>

ExecCall(raised) ==
    [filter |-> stages[stage_idx + 1][filter_idx + 1],
     input_pipe |-> previous_pipe, output_pipe |-> pipe, raised |-> raised]

\* __run_filters_of_stage: one execute_filter call that returns
ucFilterReturns ==
    /\ uc_pc = "run_filters"
    /\ filter_idx < Len(stages[stage_idx + 1])
    /\ executed' = Append(executed, ExecCall(FALSE))
    /\ filter_idx' = filter_idx + 1
    /\ UNCHANGED <<stages, uc_pc, stage_idx, pipe, previous_pipe, created_pipes, instantiated>>

\* a slip: the exception is caught (and logged) and the loop goes on
ucFilterRaises_Swallowed ==
    /\ uc_pc = "run_filters"
    /\ filter_idx < Len(stages[stage_idx + 1])
    /\ executed' = Append(executed, ExecCall(TRUE))
    /\ filter_idx' = filter_idx + 1
    /\ UNCHANGED <<stages, uc_pc, stage_idx, pipe, previous_pipe, created_pipes, instantiated>>

\* __run_filters_of_stage: one execute_filter call that raises; nothing catches
\* the exception, it leaves __run_filters_of_stage and produce_routedb
ucFilterRaises ==
    /\ uc_pc = "run_filters"
    /\ filter_idx < Len(stages[stage_idx + 1])
    /\ executed' = Append(executed, ExecCall(TRUE))
    /\ uc_pc' = "aborted"
    /\ UNCHANGED <<stages, stage_idx, filter_idx, pipe, previous_pipe, created_pipes, instantiated>>

\* The for loop of __run_filters_of_stage is through: back to the stage loop
ucStageDone ==
    /\ uc_pc = "run_filters"
    /\ filter_idx = Len(stages[stage_idx + 1])
    /\ stage_idx' = stage_idx + 1
    /\ uc_pc' = "next_stage"
    /\ UNCHANGED <<stages, filter_idx, pipe, previous_pipe, created_pipes, instantiated, executed>>

-----------------------------------------------------------------------------
(* Name normalization: UniqueIdentifier (later named NormalizedName) *)

\* str.lower on one character (ASCII and Latin-1 capitals)
Lower(c) ==
    IF (c >= 65 /\ c <= 90) \/ (c >= 192 /\ c <= 222 /\ c # 215) THEN c + 32 ELSE c

\* c in " \t\n\r\x0b\x0c"
IsWhitespace(c) == c = 32 \/ (c >= 9 /\ c <= 13)

\* c in string.punctuation
IsPunctuation(c) ==
    \/ (c >= 33 /\ c <= 47)
    \/ (c >= 58 /\ c <= 64)
    \/ (c >= 91 /\ c <= 96)
    \/ (c >= 123 /\ c <= 126)

\* c in string.printable: digits, ASCII letters, punctuation, whitespace
IsPrintable(c) == (c >= 32 /\ c <= 126) \/ (c >= 9 /\ c <= 13)

\* str.split(): the maximal runs of non-whitespace characters, in order
RECURSIVE Split(_)
Split(s) ==
    IF s = <<>> THEN <<>>
    ELSE LET rest == Split(Tail(s))
         IN IF IsWhitespace(Head(s)) THEN rest
            ELSE IF Len(s) > 1 /\ ~IsWhitespace(s[2])
                 THEN <<(<<Head(s)>> \o Head(rest))>> \o Tail(rest)
                 ELSE <<(<<Head(s)>>)>> \o rest

\* a < b for Python strings: lexicographic on code points, a proper prefix is smaller
RECURSIVE StrLess(_, _)
StrLess(a, b) ==
    IF b = <<>> THEN FALSE
    ELSE IF a = <<>> THEN TRUE
    ELSE IF Head(a) # Head(b) THEN Head(a) < Head(b)
    ELSE StrLess(Tail(a), Tail(b))

\* insertion of one string into a sorted list of strings
RECURSIVE SortedInsert(_, _)
SortedInsert(x, ss) ==
    IF ss = <<>> THEN <<x>>
    ELSE IF StrLess(x, Head(ss)) THEN <<x>> \o ss
    ELSE <<Head(ss)>> \o SortedInsert(x, Tail(ss))

\* the list of strings in reversed order instead of sorted
RECURSIVE Sorted_Reversed(_)
Sorted_Reversed(ss) ==
    IF ss = <<>> THEN <<>> ELSE Sorted_Reversed(Tail(ss)) \o <<Head(ss)>>

\* sorted(list of strings)
RECURSIVE Sorted(_)
Sorted(ss) == IF ss = <<>> THEN <<>> ELSE SortedInsert(Head(ss), Sorted(Tail(ss)))

\* "_".join(list of strings)
RECURSIVE JoinUnderscore(_)
JoinUnderscore(ss) ==
    IF ss = <<>> THEN <<>>
    ELSE IF Len(ss) = 1 THEN Head(ss)
    ELSE Head(ss) \o <<95>> \o JoinUnderscore(Tail(ss))

\* the normalization keeping accented letters (they are not in string.printable)
create_identifier_KeepNonAscii(object_name) ==
    LET lowered == [i \in 1..Len(object_name) |-> Lower(object_name[i])]
        spaced == [i \in 1..Len(lowered) |->
                      IF IsPunctuation(lowered[i]) THEN 32 ELSE lowered[i]]
    IN JoinUnderscore(Sorted(Split(spaced)))

\* the normalization without lower-casing
create_identifier_CaseSensitive(object_name) ==
    LET printable == SelectSeq(object_name, IsPrintable)
        spaced == [i \in 1..Len(printable) |->
                      IF IsPunctuation(printable[i]) THEN 32 ELSE printable[i]]
    IN JoinUnderscore(Sorted(Split(spaced)))

\* UniqueIdentifier.__create_identifier: lower-case, drop what is not printable
\* ASCII, punctuation to spaces, split, sort the segments, join with "_"
create_identifier(object_name) ==
    LET lowered == [i \in 1..Len(object_name) |-> Lower(object_name[i])]
        printable == SelectSeq(lowered, IsPrintable)
        spaced == [i \in 1..Len(printable) |->
                      IF IsPunctuation(printable[i]) THEN 32 ELSE printable[i]]
    IN JoinUnderscore(Sorted(Split(spaced)))

\* UniqueIdentifier(name): the object is its _identifier (__eq__ and __hash__ use only it)
UniqueIdentifier(object_name) == create_identifier(object_name)

\* UniqueIdentifier.__str__: the normalized string itself
UniqueIdentifier_str(self) == self

\* the characters of the names that are normalized: "a", "A", "b", the umlaut
\* a-diaeresis (no ASCII character), and space, comma and underscore
NameCharacters == {97, 65, 98, 228, 32, 44, 95}

\* all names of up to n characters
RECURSIVE NamesUpTo(_)
NamesUpTo(n) ==
    IF n = 0 THEN {<<>>}
    ELSE NamesUpTo(n - 1)
            \cup {Append(name, c) : name \in {m \in NamesUpTo(n - 1) : Len(m) = n - 1},
                                     c \in NameCharacters}

nnInit == nn_name \in NamesUpTo(MaxNameLen) /\ identifiers = <<>>

\* UniqueIdentifier(object_name) for the name
nnCreate ==
    /\ identifiers = <<>>
    /\ identifiers' = <<UniqueIdentifier(nn_name)>>
    /\ UNCHANGED nn_name

\* UniqueIdentifier(str(identifier)) for the identifier created last
nnCreateFromString ==
    /\ identifiers # <<>>
    /\ Len(identifiers) < MaxIdentifiers
    /\ identifiers' = Append(identifiers,
                             UniqueIdentifier(UniqueIdentifier_str(identifiers[Len(identifiers)])))
    /\ UNCHANGED nn_name

-----------------------------------------------------------------------------
(* GeoPosition.  A position object is its two integer coordinates and `ref`, *)
(* the identity of the Python object: the class defines no __eq__, so == and *)
(* `is` both compare identities.                                             *)

\* GeoPosition._COORDINATE_PRECISION is 10^7; one metre along a meridian is
\* COORDINATE_UNITS_PER_KM / 1000 coordinate units (earth radius 6371 km)
COORDINATE_UNITS_PER_KM == 89932

GeoPosition(ref, latitude, longitude) ==
    [ref |-> ref, latitude |-> latitude, longitude |-> longitude]

\* UNDEFINED_GEOPOSITION: Final = GeoPosition(0, 0), the one object of the module
UNDEFINED_GEOPOSITION == GeoPosition(0, 0, 0)

Abs(x) == IF x < 0 THEN 0 - x ELSE x

\* GeoPosition.is_within_radius(other, radius): the great-circle distance is at
\* most `radius` metres.  The positions of the model lie on one meridian, where
\* the distance is the difference of the latitudes.
is_within_radius(self, other, radius) ==
    /\ self.longitude = other.longitude
    /\ Abs(self.latitude - other.latitude) <= (radius * COORDINATE_UNITS_PER_KM) \div 1000

-----------------------------------------------------------------------------
(* Summit, Route, Post: the dataclasses of the entity model *)

\* NO_GRADE: Final = 0
NO_GRADE == 0

NoError == <<>>

\* MergeConflictError(object_type, object_name, conflicting_attribute)
MergeConflictError(object_type, object_name, conflicting_attribute) ==
    <<"MergeConflictError", object_type, object_name, conflicting_attribute>>

\* An entity object is the fields of its dataclass and `oid`, the identity of
\* the Python object (no field of the class: the generated __eq__ does not see it).
Summit(oid, official_name, alternate_names, unspecified_names, position) ==
    [oid |-> oid, official_name |-> official_name, alternate_names |-> alternate_names,
     unspecified_names |-> unspecified_names, position |-> position]

\* Summit.__eq__ as @dataclass generates it: the tuples of the fields are equal
SummitEq(a, b) ==
    /\ a.official_name = b.official_name
    /\ a.alternate_names = b.alternate_names
    /\ a.unspecified_names = b.unspecified_names
    /\ a.position = b.position

\* Summit.__post_init__: a Summit without any name cannot be created
HasName(summit) ==
    summit.official_name # <<>> \/ summit.alternate_names # <<>>
        \/ summit.unspecified_names # <<>>

\* Summit.name: official, else first alternate, else first unspecified name
SummitName(summit) ==
    IF summit.official_name # <<>> THEN summit.official_name
    ELSE IF summit.alternate_names # <<>> THEN summit.alternate_names[1]
    ELSE summit.unspecified_names[1]

\* Summit.get_all_possible_identifiers (later get_all_normalized_names), as the
\* set its callers turn the list into
get_all_normalized_names(summit) ==
    {UniqueIdentifier(n) :
        n \in (IF summit.official_name # <<>> THEN {summit.official_name} ELSE {})
              \cup Range(summit.alternate_names) \cup Range(summit.unspecified_names)}

\* _enrich_official_name with the incoming spelling replacing the own one
enrich_official_name_IncomingWins(self, other) ==
    IF other.official_name = <<>> THEN [summit |-> self, raised |-> NoError]
    ELSE IF self.official_name = <<>>
            \/ UniqueIdentifier(other.official_name) = UniqueIdentifier(self.official_name)
    THEN [summit |-> [self EXCEPT !.official_name = other.official_name], raised |-> NoError]
    ELSE [summit |-> self,
          raised |-> MergeConflictError("summit", SummitName(other), "official name")]

\* Summit._enrich_official_name: the new official name, or the conflict
enrich_official_name(self, other) ==
    IF other.official_name = <<>> THEN [summit |-> self, raised |-> NoError]
    ELSE IF self.official_name = <<>>
    THEN [summit |-> [self EXCEPT !.official_name = other.official_name], raised |-> NoError]
    ELSE IF UniqueIdentifier(other.official_name) = UniqueIdentifier(self.official_name)
    THEN [summit |-> self, raised |-> NoError]
    ELSE [summit |-> self,
          raised |-> MergeConflictError("summit", SummitName(other), "official name")]

\* Summit._enrich_alternate_names
enrich_alternate_names(self, other) ==
    LET unioned == IF other.alternate_names # <<>>
                   THEN DictFromKeys(self.alternate_names \o other.alternate_names)
                   ELSE self.alternate_names
    IN [self EXCEPT !.alternate_names =
            IF self.official_name # <<>> THEN ListRemove(unioned, self.official_name)
            ELSE unioned]

\* Summit._enrich_unspecified_names
enrich_unspecified_names(self, other) ==
    IF other.unspecified_names # <<>>
    THEN [self EXCEPT !.unspecified_names =
              DictFromKeys(self.unspecified_names \o other.unspecified_names)]
    ELSE self

\* Summit._enrich_position: == and != on GeoPosition compare object identities
enrich_position(self, other) ==
    IF self.position = UNDEFINED_GEOPOSITION
    THEN [summit |-> [self EXCEPT !.position = other.position], raised |-> NoError]
    ELSE IF other.position # UNDEFINED_GEOPOSITION
    THEN [summit |-> self,
          raised |-> MergeConflictError("summit", SummitName(other), "position")]
    ELSE [summit |-> self, raised |-> NoError]

\* Summit.enrich(other): the four steps in order; `summit` is self as the call
\* leaves it, also when it raises (the steps before the raising one have happened)
enrich(self, other) ==
    LET named == enrich_official_name(self, other)
    IN IF named.raised # NoError THEN named
       ELSE enrich_position(
                enrich_unspecified_names(enrich_alternate_names(named.summit, other), other),
                other)

\* Route: `grades` is the tuple (grade_af, grade_ou, grade_rp, grade_jump,
\* dangerous, star_count) of the six grade fields
Route(oid, route_name, grade, grades) ==
    [oid |-> oid, route_name |-> route_name, grade |-> grade, grades |-> grades]

\* Route.__eq__ as @dataclass generates it
RouteEq(a, b) ==
    a.route_name = b.route_name /\ a.grade = b.grade /\ a.grades = b.grades

\* Post: `data` is the tuple (user_name, post_date, comment, rating)
Post(oid, data) == [oid |-> oid, data |-> data]

\* Post.__eq__ as @dataclass generates it
PostEq(a, b) == a.data = b.data

\* list.__eq__ on two lists of Posts
PostsEq(ps, qs) == Len(ps) = Len(qs) /\ \A i \in 1..Len(ps) : PostEq(ps[i], qs[i])

-----------------------------------------------------------------------------
(* The pipe: CollectedData.  A dict is a function on the keys it holds. *)

EmptyDict == <<>>

\* dict.get(key, [])
DictGet(d, key) == IF key \in DOMAIN d THEN d[key] ELSE <<>>

\* dict.setdefault(key, []).append(value)
DictAppend(d, key, value) ==
    [k \in DOMAIN d \cup {key} |-> IF k = key THEN Append(DictGet(d, key), value) ELSE d[k]]

\* CollectedData.__init__
CollectedData ==
    [summits |-> <<>>, routes |-> <<>>, posts |-> <<>>,
     routes2summits |-> EmptyDict, posts2routes |-> EmptyDict]

\* add_summit that numbers the summits from 1
add_summit_CountsFromOne(self, summit) ==
    [pipe |-> [self EXCEPT !.summits = Append(self.summits, summit)],
     id |-> Len(self.summits) + 1,
     raised |-> NoError]

\* CollectedData.add_summit: the pipe afterwards and the returned id
add_summit(self, summit) ==
    [pipe |-> [self EXCEPT !.summits = Append(self.summits, summit)],
     id |-> Len(self.summits),
     raised |-> NoError]

\* add_route that only checks the upper end of the summit ids
add_route_NoLowerBound(self, summit_id, route) ==
    IF ~(summit_id < Len(self.summits))
    THEN [pipe |-> self, id |-> -1, raised |-> <<"EntityNotFoundError", "Summit", summit_id>>]
    ELSE [pipe |-> [self EXCEPT !.routes = Append(self.routes, route),
                                !.routes2summits =
                                    DictAppend(self.routes2summits, summit_id, Len(self.routes))],
          id |-> Len(self.routes),
          raised |-> NoError]

\* CollectedData.add_route
add_route(self, summit_id, route) ==
    IF summit_id < 0 \/ ~(summit_id < Len(self.summits))
    THEN [pipe |-> self, id |-> -1, raised |-> <<"EntityNotFoundError", "Summit", summit_id>>]
    ELSE [pipe |-> [self EXCEPT !.routes = Append(self.routes, route),
                                !.routes2summits =
                                    DictAppend(self.routes2summits, summit_id, Len(self.routes))],
          id |-> Len(self.routes),
          raised |-> NoError]

\* CollectedData.add_post
add_post(self, route_id, post) ==
    IF route_id < 0 \/ ~(route_id < Len(self.routes))
    THEN [pipe |-> self, id |-> -1, raised |-> <<"EntityNotFoundError", "Route", route_id>>]
    ELSE [pipe |-> [self EXCEPT !.posts = Append(self.posts, post),
                                !.posts2routes =
                                    DictAppend(self.posts2routes, route_id, Len(self.posts))],
          id |-> Len(self.posts),
          raised |-> NoError]

\* CollectedData.iter_summits: the (id, summit) pairs
iter_summits(self) == [i \in 1..Len(self.summits) |-> <<i - 1, self.summits[i]>>]

\* CollectedData.iter_routes_of_summit
iter_routes_of_summit(self, summit_id) ==
    LET route_ids == DictGet(self.routes2summits, summit_id)
    IN [i \in 1..Len(route_ids) |-> <<route_ids[i], self.routes[route_ids[i] + 1]>>]

\* iter_posts_of_route that forgets which route a post belongs to
iter_posts_of_route_AllPosts(self, route_id) == self.posts

\* CollectedData.iter_posts_of_route
iter_posts_of_route(self, route_id) ==
    LET post_ids == DictGet(self.posts2routes, route_id)
    IN [i \in 1..Len(post_ids) |-> self.posts[post_ids[i] + 1]]

-----------------------------------------------------------------------------
(* The MERGE filter: _EntityMerger, _SummitMerger, _RouteMerger *)

\* _RouteRelatedData(route, posts)
RouteRelatedData(route, posts) == [route |-> route, posts |-> posts]

\* _SummitRelatedData(summit, routes).  `obs` is history, no field of the class:
\* the ids (in the input pipe) of the summits folded into this object so far.
SummitRelatedData(summit, routes, obs) == [summit |-> summit, routes |-> routes, obs |-> obs]

\* _RouteRelatedData.__eq__ and _SummitRelatedData.__eq__ as @dataclass generates them
RouteRelatedDataEq(a, b) == RouteEq(a.route, b.route) /\ PostsEq(a.posts, b.posts)

SummitRelatedDataEq(a, b) ==
    /\ SummitEq(a.summit, b.summit)
    /\ Len(a.routes) = Len(b.routes)
    /\ \A i \in 1..Len(a.routes) : RouteRelatedDataEq(a.routes[i], b.routes[i])

\* == on two entities of a merger
EntityEq(kind, a, b) ==
    IF kind = "summit" THEN SummitRelatedDataEq(a, b)
    ELSE IF kind = "route" THEN RouteRelatedDataEq(a, b)
    ELSE SummitEq(a, b)

\* id() of the entity object a merger holds
EntityId(kind, e) ==
    IF kind = "summit" THEN e.summit.oid ELSE IF kind = "route" THEN e.route.oid ELSE e.oid

\* _SummitMerger._match_search_radius: Final = 200
match_search_radius == 200

\* the matching rule without the distance test
SummitMerger_is_same_NoRadius(existing_entity, new_entity) ==
    get_all_normalized_names(new_entity.summit)
        \cap get_all_normalized_names(existing_entity.summit) # {}

\* _SummitMerger._is_same.  __get_all_normalized_names caches the names of the
\* new summit by id(); every new summit is an object of its own that nothing
\* changes while it is the new one, so the cache returns what the call would.
SummitMerger_is_same(existing_entity, new_entity) ==
    LET existing_summit == existing_entity.summit
        new_summit == new_entity.summit
    IN /\ get_all_normalized_names(new_summit)
            \cap get_all_normalized_names(existing_summit) # {}
       /\ \/ existing_summit.position = UNDEFINED_GEOPOSITION
          \/ new_summit.position = UNDEFINED_GEOPOSITION
          \/ is_within_radius(existing_summit.position, new_summit.position,
                              match_search_radius)

\* _RouteMerger._is_same
RouteMerger_is_same(existing_entity, new_entity) ==
    existing_entity.route.route_name = new_entity.route.route_name

\* the test of MergingPipeDecorator.add_or_enrich_summit is the one of _SummitMerger
is_same(kind, existing_entity, new_entity) ==
    IF kind = "summit" THEN SummitMerger_is_same(existing_entity, new_entity)
    ELSE IF kind = "route" THEN RouteMerger_is_same(existing_entity, new_entity)
    ELSE SummitMerger_is_same([summit |-> existing_entity], [summit |-> new_entity])

missing_grade == <<NO_GRADE, NO_GRADE, NO_GRADE, NO_GRADE, FALSE, 0>>

\* the grade rule with the later observation winning
RouteMerger_merge_objects_LastWins(target_entity, source_entity) ==
    [entity |-> RouteRelatedData(
                    [target_entity.route EXCEPT !.grades = source_entity.route.grades],
                    target_entity.posts \o source_entity.posts),
     raised |-> NoError]

\* _RouteMerger._merge_objects: the target as the call leaves it, and the error
RouteMerger_merge_objects(target_entity, source_entity) ==
    LET target_grade == target_entity.route.grades
        source_grade == source_entity.route.grades
    IN IF target_grade = missing_grade
       THEN [entity |-> RouteRelatedData(
                            [target_entity.route EXCEPT !.grades = source_grade],
                            target_entity.posts \o source_entity.posts),
             raised |-> NoError]
       ELSE IF source_grade \notin {missing_grade, target_grade}
       THEN [entity |-> target_entity,
             raised |-> MergeConflictError("route", source_entity.route.route_name, "grade")]
       ELSE [entity |-> RouteRelatedData(target_entity.route,
                                         target_entity.posts \o source_entity.posts),
             raised |-> NoError]

\* position of the first element of `entities` that == finds equal to x, 0 if none
FirstEqual(kind, entities, x) ==
    IF \E i \in 1..Len(entities) : EntityEq(kind, entities[i], x)
    THEN CHOOSE i \in 1..Len(entities) :
            /\ EntityEq(kind, entities[i], x)
            /\ \A j \in 1..(i - 1) : ~EntityEq(kind, entities[j], x)
    ELSE 0

RECURSIVE merge_entity(_, _, _)
RECURSIVE MergeRest(_, _, _)
RECURSIVE MergeRoutes(_, _)

\* _SummitMerger._merge_objects, second half: every route of the source is
\* merged into target_entity.routes, in order, until one raises
MergeRoutes(routes, source_routes) ==
    IF source_routes = <<>> THEN [entities |-> routes, raised |-> NoError, shared |-> FALSE]
    ELSE LET one == merge_entity("route", routes, Head(source_routes))
         IN IF one.raised # NoError THEN one
            ELSE LET rest == MergeRoutes(one.entities, Tail(source_routes))
                 IN [rest EXCEPT !.shared = @ \/ one.shared]

\* _merge_objects that merges the routes but leaves the target summit as it is
SummitMerger_merge_objects_RoutesOnly(target_entity, source_entity) ==
    LET merged == MergeRoutes(target_entity.routes, source_entity.routes)
    IN [entity |-> SummitRelatedData(target_entity.summit, merged.entities,
                                     target_entity.obs \cup source_entity.obs),
        raised |-> merged.raised, shared |-> merged.shared]

\* _SummitMerger._merge_objects: enrich the summit, then merge the routes
SummitMerger_merge_objects(target_entity, source_entity) ==
    LET enriched == enrich(target_entity.summit, source_entity.summit)
        obs == target_entity.obs \cup source_entity.obs
    IN IF enriched.raised # NoError
       THEN [entity |-> SummitRelatedData(enriched.summit, target_entity.routes, obs),
             raised |-> enriched.raised, shared |-> FALSE]
       ELSE LET merged == MergeRoutes(target_entity.routes, source_entity.routes)
            IN [entity |-> SummitRelatedData(enriched.summit, merged.entities, obs),
                raised |-> merged.raised, shared |-> merged.shared]

merge_objects(kind, target_entity, source_entity) ==
    IF kind = "summit" THEN SummitMerger_merge_objects(target_entity, source_entity)
    ELSE IF kind = "route"
    THEN LET merged == RouteMerger_merge_objects(target_entity, source_entity)
         IN [entity |-> merged.entity, raised |-> merged.raised, shared |-> FALSE]
    ELSE LET enriched == enrich(target_entity, source_entity)
         IN [entity |-> enriched.summit, raised |-> enriched.raised, shared |-> FALSE]

\* _EntityMerger.merge_entity, the loop over existing_objects_to_merge[1:] and the
\* final append.  st.target is the target object, st.tpos its place in the list
\* (0 once it is no longer in it: list.remove drops the first element that is
\* *equal* to the merged object, which can be the target).
MergeRest(kind, st, merge_objects_left) ==
    IF merge_objects_left = <<>>
    THEN [entities |-> IF FirstEqual(kind, st.entities, st.target) = 0
                       THEN Append(st.entities, st.target)
                       ELSE st.entities,
          raised |-> NoError,
          shared |-> st.shared]
    ELSE LET merge_object == Head(merge_objects_left)
             merged == merge_objects(kind, st.target, merge_object)
             updated == IF st.tpos > 0
                        THEN ReplaceAt(st.entities, st.tpos, merged.entity)
                        ELSE st.entities
             removed == FirstEqual(kind, updated, merge_object)
         IN IF merged.raised # NoError
            THEN [entities |-> updated, raised |-> merged.raised,
                  shared |-> st.shared \/ merged.shared]
            ELSE MergeRest(kind,
                    [entities |-> IF removed = 0 THEN updated ELSE RemoveAt(updated, removed),
                     target |-> merged.entity,
                     tpos |-> IF removed = 0 \/ removed > st.tpos THEN st.tpos
                              ELSE IF removed = st.tpos THEN 0
                              ELSE st.tpos - 1,
                     shared |-> st.shared \/ merged.shared
                        \/ (/\ kind = "summit"
                            /\ removed # 0
                            /\ EntityId(kind, updated[removed]) # EntityId(kind, merge_object)
                            /\ \E i \in 1..Len(updated) :
                                  EntityId(kind, updated[i]) = EntityId(kind, merge_object))],
                    Tail(merge_objects_left))

\* merge_entity that appends every new entity without looking for matches
merge_entity_AppendOnly(kind, target_entities, new_entity) ==
    [entities |-> Append(target_entities, new_entity), raised |-> NoError, shared |-> FALSE]

\* merge_entity that merges the new entity into the first match and leaves the
\* other matches alone
merge_entity_FirstMatchOnly(kind, target_entities, new_entity) ==
    LET matching == {i \in 1..Len(target_entities) :
                        is_same(kind, target_entities[i], new_entity)}
        first == IF matching = {} THEN 0
                 ELSE CHOOSE i \in matching : \A j \in matching : i <= j
        existing_objects_to_merge ==
            (IF first = 0 THEN <<>> ELSE <<target_entities[first]>>) \o <<new_entity>>
    IN MergeRest(kind,
                 [entities |-> target_entities,
                  target |-> existing_objects_to_merge[1],
                  tpos |-> first,
                  shared |-> FALSE],
                 Tail(existing_objects_to_merge))

\* _EntityMerger.merge_entity(new_entity) on the list target_entities: the list
\* as the call leaves it and the error it raised, if any.  `shared` tells that
\* an entity stayed in the list although it was merged into another one.
merge_entity(kind, target_entities, new_entity) ==
    LET matching == {i \in 1..Len(target_entities) :
                        is_same(kind, target_entities[i], new_entity)}
        existing == [i \in 1..Len(target_entities) |-> i]
        match_idx == SelectSeq(existing, LAMBDA i : i \in matching)
        existing_objects_to_merge ==
            [k \in 1..Len(match_idx) |-> target_entities[match_idx[k]]] \o <<new_entity>>
    IN MergeRest(kind,
                 [entities |-> target_entities,
                  target |-> existing_objects_to_merge[1],
                  tpos |-> IF match_idx = <<>> THEN 0 ELSE match_idx[1],
                  shared |-> FALSE],
                 Tail(existing_objects_to_merge))

-----------------------------------------------------------------------------
(* MergeFilter.execute_filter on an input pipe that the IMPORT stage filled *)

\* "a", "A", "b": two spellings of one normalized name, and another name
NameA == <<97>>
NameUpperA == <<65>>
NameB == <<98>>

\* coordinates on the meridian of Greenwich: 50 degrees north, about 111 m and
\* about 334 m north of it
Coordinates == {<<500000000, 0>>, <<500010000, 0>>, <<500030000, 0>>}

\* the position object of the summit with the id summit_id
NewPosition(summit_id, shape) ==
    IF shape = <<>> THEN UNDEFINED_GEOPOSITION
    ELSE GeoPosition(summit_id + 1, shape[1], shape[2])

SummitShape(official_name, alternate_names, unspecified_names, position) ==
    [official_name |-> official_name, alternate_names |-> alternate_names,
     unspecified_names |-> unspecified_names, position |-> position]

\* the summits of the runs on summits: <<>> stands for the default position,
\* the other positions become a GeoPosition object of the summit's own (also
\* <<0, 0>>, which from_decimal_degree(0.0, 0.0) makes)
SummitShapes ==
    {SummitShape(NameA, <<>>, <<>>, pos) : pos \in {<<>>, <<0, 0>>} \cup Coordinates}
        \cup {SummitShape(NameUpperA, <<>>, <<>>, <<>>),
              SummitShape(NameUpperA, <<>>, <<>>, <<500000000, 0>>),
              SummitShape(NameB, <<>>, <<>>, <<>>),
              SummitShape(NameB, <<>>, <<>>, <<500030000, 0>>),
              SummitShape(<<>>, <<>>, <<NameA>>, <<>>),
              SummitShape(NameA, <<NameB>>, <<>>, <<>>)}

\* the summits of the runs on summits with several names: one name each, or
\* both names, at no position, at 50 degrees north, about 111 m or about 334 m
\* north of it
NamedSummitShapes ==
    {SummitShape(names[1], names[2], names[3], pos) :
        names \in {<<<<>>, <<>>, <<NameA>>>>, <<<<>>, <<>>, <<NameB>>>>,
                   <<NameA, <<NameB>>, <<>>>>, <<<<>>, <<>>, <<NameB, NameA>>>>},
        pos \in {<<>>} \cup Coordinates}

\* the summits of the runs on routes and posts
RouteRunSummitShapes ==
    {SummitShape(NameA, <<>>, <<>>, <<>>), SummitShape(NameB, <<>>, <<>>, <<>>)}

\* grade tuples: none, and two different ones
GradeTuples == {missing_grade, <<1, 0, 1, 0, FALSE, 0>>, <<2, 0, 2, 0, FALSE, 1>>}

\* routes "r" with every grade tuple, and a route "s"
RouteShapes ==
    {[route_name |-> "r", grades |-> g] : g \in GradeTuples}
        \cup {[route_name |-> "s", grades |-> missing_grade]}

\* routes "r" and "s" without a grade
UngradedRouteShapes == {r \in RouteShapes : r.grades = missing_grade}

\* two different posts (user_name, post_date, comment, rating)
PostData == {<<"johndoe", 1, "", 1>>, <<"maxmu", 2, "", 2>>}

PipeSize(p) == Len(p.summits) + Len(p.routes) + Len(p.posts)

mfInit ==
    /\ input_pipe = CollectedData
    /\ output_pipe = CollectedData
    /\ merged_summit_data = <<>>
    /\ mf_pc = "importing"
    /\ mf_next = 0
    /\ mf_last = [op |-> "none"]

\* IMPORT: a source filter adds a summit to the pipe
mfAddSummit(shapes, limit, summit_limit) ==
    /\ mf_pc = "importing"
    /\ PipeSize(input_pipe) < limit
    /\ Len(input_pipe.summits) < summit_limit
    /\ \E n \in shapes :
          LET id == Len(input_pipe.summits)
              summit == Summit(id, n.official_name, n.alternate_names,
                               n.unspecified_names, NewPosition(id, n.position))
          IN input_pipe' = add_summit(input_pipe, summit).pipe
    /\ UNCHANGED <<output_pipe, merged_summit_data, mf_pc, mf_next, mf_last>>

\* IMPORT: a source filter adds a route to the summit it added last
mfAddRoute(shapes, limit) ==
    /\ mf_pc = "importing"
    /\ PipeSize(input_pipe) < limit
    /\ input_pipe.summits # <<>>
    /\ \E r \in shapes :
          LET route == Route(Len(input_pipe.routes), r.route_name, "", r.grades)
          IN input_pipe' = add_route(input_pipe, Len(input_pipe.summits) - 1, route).pipe
    /\ UNCHANGED <<output_pipe, merged_summit_data, mf_pc, mf_next, mf_last>>

\* IMPORT: a source filter adds a post to the route it added last
mfAddPost ==
    /\ mf_pc = "importing"
    /\ PipeSize(input_pipe) < MaxPipeSize
    /\ input_pipe.routes # <<>>
    /\ Len(input_pipe.routes) - 1
          \in Range(DictGet(input_pipe.routes2summits, Len(input_pipe.summits) - 1))
    /\ \E d \in PostData :
          input_pipe' = add_post(input_pipe, Len(input_pipe.routes) - 1,
                                 Post(Len(input_pipe.posts), d)).pipe
    /\ UNCHANGED <<output_pipe, merged_summit_data, mf_pc, mf_next, mf_last>>

\* MergeFilter.execute_filter is called: merger = _SummitMerger(self._merged_summit_data)
mfStart ==
    /\ mf_pc = "importing"
    /\ mf_pc' = "merging"
    /\ UNCHANGED <<input_pipe, output_pipe, merged_summit_data, mf_next, mf_last>>

\* execute_filter, the body of the outer loop up to merge_entity: the
\* _SummitRelatedData of the summit with the id summit_id
full_summit_data(pipe_read, summit_id) ==
    LET routes == iter_routes_of_summit(pipe_read, summit_id)
    IN SummitRelatedData(
           pipe_read.summits[summit_id + 1],
           [i \in 1..Len(routes) |->
               RouteRelatedData(routes[i][2], iter_posts_of_route(pipe_read, routes[i][1]))],
           {summit_id})

\* execute_filter, one pass of the loop over input_pipe.iter_summits()
mfMerge ==
    /\ mf_pc = "merging"
    /\ mf_next < Len(input_pipe.summits)
    /\ LET new_entity == full_summit_data(input_pipe, mf_next)
           res == merge_entity("summit", merged_summit_data, new_entity)
       IN /\ merged_summit_data' = res.entities
          /\ mf_pc' = IF res.raised # NoError THEN "raised" ELSE "merging"
          /\ mf_last' = [op |-> "merge_entity", new_entity |-> new_entity,
                         before |-> merged_summit_data, raised |-> res.raised,
                         shared |-> res.shared]
    /\ mf_next' = mf_next + 1
    /\ UNCHANGED <<input_pipe, output_pipe>>

RECURSIVE WritePosts(_, _, _)
WritePosts(out, route_id, posts) ==
    IF posts = <<>> THEN out
    ELSE WritePosts(add_post(out, route_id, Head(posts)).pipe, route_id, Tail(posts))

RECURSIVE WriteRoutes(_, _, _)
WriteRoutes(out, summit_id, routes) ==
    IF routes = <<>> THEN out
    ELSE LET added == add_route(out, summit_id, Head(routes).route)
         IN WriteRoutes(WritePosts(added.pipe, added.id, Head(routes).posts),
                        summit_id, Tail(routes))

\* MergeFilter._write_merged_data: the output pipe after writing `data`
RECURSIVE write_merged_data(_, _)
write_merged_data(out, data) ==
    IF data = <<>> THEN out
    ELSE LET added == add_summit(out, Head(data).summit)
         IN write_merged_data(WriteRoutes(added.pipe, added.id, Head(data).routes), Tail(data))

\* execute_filter after the loop: _write_merged_data, which ends with clear()
mfWrite ==
    /\ mf_pc = "merging"
    /\ mf_next = Len(input_pipe.summits)
    /\ output_pipe' = write_merged_data(output_pipe, merged_summit_data)
    /\ merged_summit_data' = <<>>
    /\ mf_pc' = "done"
    /\ mf_last' = [op |-> "write", written |-> merged_summit_data]
    /\ UNCHANGED <<input_pipe, mf_next>>

-----------------------------------------------------------------------------
(* The VALIDATION filter: DataValidationFilter.execute_filter *)

\* the summits of the runs of the validation filter
ValidatedSummitShapes == {SummitShape(NameA, <<>>, <<>>, <<>>)}

\* IMPORT: a source filter adds a route to any summit of the pipe
vfAddRoute ==
    /\ mf_pc = "importing"
    /\ PipeSize(input_pipe) < MaxValidatedPipeSize
    /\ \E summit_id \in 0..(Len(input_pipe.summits) - 1), r \in UngradedRouteShapes :
          LET route == Route(Len(input_pipe.routes), r.route_name, "", r.grades)
          IN input_pipe' = add_route(input_pipe, summit_id, route).pipe
    /\ UNCHANGED <<output_pipe, merged_summit_data, mf_pc, mf_next, mf_last>>

\* IMPORT: a source filter adds a post to any route of the pipe
vfAddPost ==
    /\ mf_pc = "importing"
    /\ PipeSize(input_pipe) < MaxValidatedPipeSize
    /\ \E route_id \in 0..(Len(input_pipe.routes) - 1), d \in PostData :
          input_pipe' = add_post(input_pipe, route_id, Post(Len(input_pipe.posts), d)).pipe
    /\ UNCHANGED <<output_pipe, merged_summit_data, mf_pc, mf_next, mf_last>>

\* the summits and routes of a pipe, as the objects fix_invalid_data is called on
PipeEntities(pipe_read) ==
    {<<"summit", pipe_read.summits[i].oid>> : i \in 1..Len(pipe_read.summits)}
        \cup {<<"route", pipe_read.routes[i].oid>> : i \in 1..Len(pipe_read.routes)}

\* Summit.fix_invalid_data / Route.fix_invalid_data: raises IncompleteDataError
\* for the objects that cannot be repaired (`incomplete`), returns for the
\* others.  The repairs are made in the object the pipe holds; which fields
\* they change is not followed here.
fix_invalid_data(kind, entity, incomplete) ==
    IF <<kind, entity.oid>> \in incomplete
    THEN <<"IncompleteDataError", kind, entity.oid>>
    ELSE NoError

\* DataValidationFilter._validate_summit
validate_summit(summit, incomplete) == fix_invalid_data("summit", summit, incomplete) = NoError

\* DataValidationFilter._validate_route
validate_route(summit, route, incomplete) ==
    fix_invalid_data("route", route, incomplete) = NoError

\* the loop over the routes with every route written, valid or not
RECURSIVE ValidateRoutes_KeepAll(_, _, _, _, _)
ValidateRoutes_KeepAll(pipe_read, summit, route_iter, incomplete, acc) ==
    IF route_iter = <<>> THEN acc
    ELSE LET route_id == Head(route_iter)[1]
             route == Head(route_iter)[2]
         IN ValidateRoutes_KeepAll(pipe_read, summit, Tail(route_iter), incomplete,
                [acc EXCEPT !.routes = Append(@, <<route_id, route>>),
                            !.posts = Append(@, <<route_id,
                                                  iter_posts_of_route(pipe_read, route_id)>>)])

\* execute_filter, the loop over iter_routes_of_summit: the dicts `routes` and
\* `posts` (as lists of items in insertion order) and ignore_current_summit
RECURSIVE ValidateRoutes(_, _, _, _, _)
ValidateRoutes(pipe_read, summit, route_iter, incomplete, acc) ==
    IF route_iter = <<>> THEN acc
    ELSE LET route_id == Head(route_iter)[1]
             route == Head(route_iter)[2]
         IN IF ~validate_route(summit, route, incomplete)
            THEN [acc EXCEPT !.ignore_current_summit = TRUE]
            ELSE ValidateRoutes(pipe_read, summit, Tail(route_iter), incomplete,
                    [acc EXCEPT !.routes = Append(@, <<route_id, route>>),
                                !.posts = Append(@, <<route_id,
                                                      iter_posts_of_route(pipe_read, route_id)>>)])

\* dict.get(key, []) on a dict kept as a list of items
ItemsGet(items, key) ==
    IF \E i \in 1..Len(items) : items[i][1] = key
    THEN items[CHOOSE i \in 1..Len(items) : items[i][1] = key][2]
    ELSE <<>>

\* DataValidationFilter._write_summit_to_pipe, the loop over routes.items()
RECURSIVE WriteValidRoutes(_, _, _, _)
WriteValidRoutes(out, output_summit_id, routes, posts) ==
    IF routes = <<>> THEN out
    ELSE LET input_route_id == Head(routes)[1]
             added == add_route(out, output_summit_id, Head(routes)[2])
         IN WriteValidRoutes(WritePosts(added.pipe, added.id, ItemsGet(posts, input_route_id)),
                             output_summit_id, Tail(routes), posts)

\* DataValidationFilter._write_summit_to_pipe
write_summit_to_pipe(out, summit, routes, posts) ==
    LET added == add_summit(out, summit)
    IN WriteValidRoutes(added.pipe, added.id, routes, posts)

\* DataValidationFilter.execute_filter, the loop over iter_summits from the
\* summit_iter on: the output pipe when it ends
RECURSIVE ValidateSummits(_, _, _, _)
ValidateSummits(pipe_read, out, summit_iter, incomplete) ==
    IF summit_iter = <<>> THEN out
    ELSE LET input_summit_id == Head(summit_iter)[1]
             summit == Head(summit_iter)[2]
             checked == ValidateRoutes(pipe_read, summit,
                            iter_routes_of_summit(pipe_read, input_summit_id), incomplete,
                            [ignore_current_summit |-> FALSE, routes |-> <<>>, posts |-> <<>>])
         IN IF ~validate_summit(summit, incomplete)
            THEN ValidateSummits(pipe_read, out, Tail(summit_iter), incomplete)
            ELSE IF checked.ignore_current_summit
            THEN ValidateSummits(pipe_read, out, Tail(summit_iter), incomplete)
            ELSE ValidateSummits(pipe_read,
                                 write_summit_to_pipe(out, summit, checked.routes, checked.posts),
                                 Tail(summit_iter), incomplete)

\* DataValidationFilter.execute_filter(input_pipe, output_pipe), for one choice
\* of the objects fix_invalid_data cannot repair
vfExecuteFilter ==
    /\ mf_pc = "importing"
    /\ \E incomplete \in SUBSET PipeEntities(input_pipe) :
          /\ output_pipe' = ValidateSummits(input_pipe, output_pipe,
                                            iter_summits(input_pipe), incomplete)
          /\ mf_last' = [op |-> "validate", incomplete |-> incomplete]
    /\ mf_pc' = "done"
    /\ UNCHANGED <<input_pipe, merged_summit_data, mf_next>>

-----------------------------------------------------------------------------
(* Summit.enrich called on two summits, and MergingPipeDecorator *)

\* the summits enrich is tried on: every combination of names that makes a Summit
EnrichShapes ==
    {sh \in {SummitShape(o, alt, u, pos) :
                o \in {<<>>, NameA, NameUpperA, NameB},
                alt \in {<<>>, <<NameA>>, <<NameB>>, <<NameA, NameB>>, <<NameA, NameA>>},
                u \in {<<>>, <<NameA>>, <<NameB>>},
                pos \in {<<>>, <<0, 0>>, <<500000000, 0>>, <<500030000, 0>>}} :
        HasName(sh)}

NewSummit(oid, shape) ==
    Summit(oid, shape.official_name, shape.alternate_names, shape.unspecified_names,
           NewPosition(oid, shape.position))

\* two summits exist: dec_summits[1] is the one to enrich, dec_summits[2] the other
enInit ==
    /\ \E s1 \in EnrichShapes, s2 \in EnrichShapes :
          dec_summits = <<NewSummit(0, s1), NewSummit(1, s2)>>
    /\ dec_calls = 0
    /\ dec_last = [op |-> "none"]

\* dec_summits[1].enrich(dec_summits[2])
enEnrich ==
    /\ dec_calls = 0
    /\ LET res == enrich(dec_summits[1], dec_summits[2])
       IN /\ dec_summits' = <<res.summit, dec_summits[2]>>
          /\ dec_last' = [op |-> "enrich", self |-> dec_summits[1],
                          other |-> dec_summits[2], raised |-> res.raised]
    /\ dec_calls' = 1

\* MergingPipeDecorator.__init__: nothing collected yet
decInit == dec_summits = <<>> /\ dec_calls = 0 /\ dec_last = [op |-> "none"]

\* MergingPipeDecorator.add_or_enrich_summit on the list self._summits: the
\* algorithm of _EntityMerger.merge_entity with Summit objects as entities
add_or_enrich_summit(summits, summit) == merge_entity("collected", summits, summit)

\* a source filter calls add_or_enrich_summit(summit) with a new Summit object
decAddOrEnrichSummit ==
    /\ dec_calls < MaxCalls
    /\ \E shape \in SummitShapes :
          LET summit == NewSummit(dec_calls, shape)
              res == add_or_enrich_summit(dec_summits, summit)
          IN /\ dec_summits' = res.entities
             /\ dec_last' = [op |-> "add_or_enrich_summit", summit |-> summit,
                             before |-> dec_summits, raised |-> res.raised,
                             shared |-> res.shared]
    /\ dec_calls' = dec_calls + 1

-----------------------------------------------------------------------------
(* MergingPipeDecorator with routes and posts: self._routes and self._posts are
   dicts keyed by the normalized name of a summit, the delegate pipe is the
   list of the calls made on it *)

\* Summit.normalized_name: the normalized Summit.name
Summit_normalized_name(summit) == UniqueIdentifier(SummitName(summit))

\* the summits a source hands to the decorator: one name each, both names as
\* unspecified names, or the official name "a" with the alternate name "b";
\* at no position or at 50 degrees north
DecoratedSummitShapes ==
    {sh \in NamedSummitShapes : sh.position \in {<<>>, <<500000000, 0>>}}

\* the names a caller passes for a summit
PassedSummitNames == {NameA, NameB}

\* MergingPipeDecorator._find_first_summit: the index of the first summit in
\* self._summits that has the name among its normalized names, 0 if there is
\* none (EntityNotFoundError)
find_first_summit(summits, summit_name) ==
    LET found == {i \in 1..Len(summits) :
                     UniqueIdentifier(summit_name) \in get_all_normalized_names(summits[i])}
    IN IF found = {} THEN 0 ELSE CHOOSE i \in found : \A j \in found : i <= j

\* self._posts.setdefault(key, {}).setdefault(route_name, []).append(post)
PostsAppend(posts, key, route_name, post) ==
    [k \in DOMAIN posts \cup {key} |->
        IF k = key THEN DictAppend(DictGet(posts, key), route_name, post) ELSE posts[k]]

dpInit == dec_routes = EmptyDict /\ dec_posts = EmptyDict /\ delegate = <<>> /\ dec_accepted = <<>>

\* a source filter calls add_or_enrich_summit(summit) with a new Summit object
dpAddOrEnrichSummit ==
    /\ dec_last.op # "finalize_pipe"
    /\ dec_calls + Len(dec_accepted) < MaxDecoratorCalls
    /\ \E shape \in DecoratedSummitShapes :
          LET summit == NewSummit(dec_calls, shape)
              res == add_or_enrich_summit(dec_summits, summit)
          IN /\ dec_summits' = res.entities
             /\ dec_last' = [op |-> "add_or_enrich_summit", raised |-> res.raised]
    /\ dec_calls' = dec_calls + 1
    /\ UNCHANGED <<dec_routes, dec_posts, delegate, dec_accepted>>

\* a source filter calls add_or_enrich_route(summit_name, route) with a new Route object
dpAddOrEnrichRoute ==
    /\ dec_last.op # "finalize_pipe"
    /\ dec_calls + Len(dec_accepted) < MaxDecoratorCalls
    /\ \E summit_name \in PassedSummitNames, r \in UngradedRouteShapes :
          LET route == Route(Len(dec_accepted), r.route_name, "", r.grades)
              first == find_first_summit(dec_summits, summit_name)
          IN IF first = 0
             THEN /\ dec_last' = [op |-> "add_or_enrich_route",
                                  raised |-> <<"EntityNotFoundError", summit_name>>]
                  /\ UNCHANGED <<dec_routes, dec_accepted>>
             ELSE LET key == Summit_normalized_name(dec_summits[first])
                  IN /\ dec_routes' = DictAppend(dec_routes, key, route)
                     /\ dec_accepted' =
                            Append(dec_accepted,
                                   [op |-> "add_or_enrich_route", oid |-> route.oid,
                                    key |-> key, route_name |-> route.route_name])
                     /\ dec_last' = [op |-> "add_or_enrich_route", raised |-> NoError]
    /\ UNCHANGED <<dec_summits, dec_calls, dec_posts, delegate>>

\* a source filter calls add_post(summit_name, route_name, post) with a new Post object
dpAddPost ==
    /\ dec_last.op # "finalize_pipe"
    /\ dec_calls + Len(dec_accepted) < MaxDecoratorCalls
    /\ \E summit_name \in PassedSummitNames, r \in UngradedRouteShapes, d \in PostData :
          LET post == Post(Len(dec_accepted), d)
              first == find_first_summit(dec_summits, summit_name)
          IN IF first = 0
             THEN /\ dec_last' = [op |-> "add_post",
                                  raised |-> <<"EntityNotFoundError", summit_name>>]
                  /\ UNCHANGED <<dec_posts, dec_accepted>>
             ELSE LET key == Summit_normalized_name(dec_summits[first])
                  IN /\ dec_posts' = PostsAppend(dec_posts, key, r.route_name, post)
                     /\ dec_accepted' =
                            Append(dec_accepted,
                                   [op |-> "add_post", oid |-> post.oid,
                                    key |-> key, route_name |-> r.route_name])
                     /\ dec_last' = [op |-> "add_post", raised |-> NoError]
    /\ UNCHANGED <<dec_summits, dec_calls, dec_routes, delegate>>

\* finalize_pipe, the loop over the posts of one route: the calls on the delegate
DelegatePosts(summit, route, posts) ==
    [i \in 1..Len(posts) |->
        [op |-> "add_post", summit_name |-> SummitName(summit),
         route_name |-> route.route_name, oid |-> posts[i].oid]]

\* finalize_pipe, the loop over the routes of one summit
RECURSIVE DelegateRoutes(_, _, _)
DelegateRoutes(summit, routes, posts) ==
    IF routes = <<>> THEN <<>>
    ELSE LET route == Head(routes)
         IN <<[op |-> "add_or_enrich_route", summit_name |-> SummitName(summit),
               oid |-> route.oid]>>
               \o DelegatePosts(summit, route,
                                DictGet(DictGet(posts, Summit_normalized_name(summit)),
                                        route.route_name))
               \o DelegateRoutes(summit, Tail(routes), posts)

\* finalize_pipe, the loop over self._summits
RECURSIVE DelegateSummits(_, _, _)
DelegateSummits(summits, routes, posts) ==
    IF summits = <<>> THEN <<>>
    ELSE LET summit == Head(summits)
         IN <<[op |-> "add_or_enrich_summit", oid |-> summit.oid]>>
               \o DelegateRoutes(summit, DictGet(routes, Summit_normalized_name(summit)), posts)
               \o DelegateSummits(Tail(summits), routes, posts)

\* MergingPipeDecorator.finalize_pipe
dpFinalizePipe ==
    /\ dec_last.op # "finalize_pipe"
    /\ delegate' = delegate \o DelegateSummits(dec_summits, dec_routes, dec_posts)
                            \o <<[op |-> "finalize_pipe"]>>
    /\ dec_summits' = <<>>
    /\ dec_routes' = EmptyDict
    /\ dec_posts' = EmptyDict
    /\ dec_last' = [op |-> "finalize_pipe", summits |-> dec_summits]
    /\ UNCHANGED <<dec_calls, dec_accepted>>

-----------------------------------------------------------------------------
(* CollectedData driven through the Pipe interface by any caller *)

\* the ids a caller may pass: the ones that can be handed out within the
\* bound, a negative one and one beyond
PassedIds == -1..MaxPipeCalls

cdInit == cd_pipe = CollectedData /\ cd_calls = <<>>

cdIdle == cd_pipe = CollectedData /\ cd_calls = <<>>

\* the record of one call: its arguments, the returned id and the error raised
PipeCall(op, parent, entity, res) ==
    [op |-> op, parent |-> parent, entity |-> entity, id |-> res.id, raised |-> res.raised]

\* add_summit(summit) with a new Summit object
cdAddSummit ==
    /\ Len(cd_calls) < MaxPipeCalls
    /\ LET summit == Summit(Len(cd_calls), NameA, <<>>, <<>>, UNDEFINED_GEOPOSITION)
           res == add_summit(cd_pipe, summit)
       IN /\ cd_pipe' = res.pipe
          /\ cd_calls' = Append(cd_calls, PipeCall("add_summit", -1, summit, res))

\* add_route(summit_id, route) with a new Route object and any id
cdAddRoute ==
    /\ Len(cd_calls) < MaxPipeCalls
    /\ \E summit_id \in PassedIds :
          LET route == Route(Len(cd_calls), "r", "", missing_grade)
              res == add_route(cd_pipe, summit_id, route)
          IN /\ cd_pipe' = res.pipe
             /\ cd_calls' = Append(cd_calls, PipeCall("add_route", summit_id, route, res))

\* add_post(route_id, post) with a new Post object and any id
cdAddPost ==
    /\ Len(cd_calls) < MaxPipeCalls
    /\ \E route_id \in PassedIds :
          LET post == Post(Len(cd_calls), <<"johndoe", 1, "", 1>>)
              res == add_post(cd_pipe, route_id, post)
          IN /\ cd_pipe' = res.pipe
             /\ cd_calls' = Append(cd_calls, PipeCall("add_post", route_id, post, res))

-----------------------------------------------------------------------------
(* The teufelsturm source filter: TeufelsturmDataFilter._perform_scan, which *)
(* writes into the pipe cd_pipe                                              *)

\* "Slawe", one of the summits that are closed for climbing
NameSlawe == <<83, 108, 97, 119, 101>>

\* _is_forbidden: forbidden_summit_names ("Adlerlochturm", "Hirschsuhlenturm",
\* "Kleiner Turm", "Litfaßsäule", "Schwarze Spitze", "Schwarzschlüchteturm",
\* "Slawe", "Wobstspitze")
forbidden_summit_names ==
    {<<65, 100, 108, 101, 114, 108, 111, 99, 104, 116, 117, 114, 109>>,
     <<72, 105, 114, 115, 99, 104, 115, 117, 104, 108, 101, 110, 116, 117, 114, 109>>,
     <<75, 108, 101, 105, 110, 101, 114, 32, 84, 117, 114, 109>>,
     <<76, 105, 116, 102, 97, 223, 115, 228, 117, 108, 101>>,
     <<83, 99, 104, 119, 97, 114, 122, 101, 32, 83, 112, 105, 116, 122, 101>>,
     <<83, 99, 104, 119, 97, 114, 122, 115, 99, 104, 108, 252, 99, 104, 116, 101, 116, 117, 114, 109>>,
     <<83, 108, 97, 119, 101>>,
     <<87, 111, 98, 115, 116, 115, 112, 105, 116, 122, 101>>}

is_forbidden(summit) == SummitName(summit) \in forbidden_summit_names

\* the peak names on the pages of the runs
PeakNames == {NameA, NameB, NameSlawe}

\* hash() maps every str to one of 2^64 - 1 integers, by a function that is
\* chosen when the interpreter starts; the runs see it on PeakNames, with few
\* enough values for two names to get the same one
HashValues == {1, 2}

\* what one pass of the loop of _perform_scan finds: a page id that
\* _check_ignore_route rejects, a page on which parse_page raises
\* DataProcessingError, or the PageData of a page (the peak, and the route
\* with `posts` posts)
ScannedPages ==
    {[kind |-> "ignored"], [kind |-> "DataProcessingError"]}
        \cup {[kind |-> "PageData", peak_name |-> n, posts |-> k] :
                 n \in PeakNames, k \in 0..1}

\* None, as dict.get returns it
None == -1

\* TeufelsturmDataFilter.__init__, and the interpreter the filter runs in
tsInit ==
    /\ str_hash \in [PeakNames -> HashValues]
    /\ added_peak_name_hashes = <<>>
    /\ ts_pages = <<>>

\* for post in post_data.posts: pipe.add_post(route_id=route_id, post=post)
RECURSIVE AddPosts(_, _, _)
AddPosts(st, route_id, posts) ==
    IF posts = <<>> THEN st
    ELSE LET res == add_post(st.pipe, route_id, Head(posts))
         IN AddPosts([pipe |-> res.pipe,
                      calls |-> Append(st.calls, PipeCall("add_post", route_id, Head(posts), res))],
                     route_id, Tail(posts))

\* _perform_scan, lines 109-120: the PageData of one page is written to the
\* pipe; the pipe, the calls made on it and the dict afterwards
perform_scan(self_pipe, calls, hashes, post_data) ==
    LET key == str_hash[SummitName(post_data.peak)]
        cached == IF key \in DOMAIN hashes THEN hashes[key] ELSE None
        added == add_summit(self_pipe, post_data.peak)
        summit_id == IF cached = None THEN added.id ELSE cached
        with_summit == IF cached = None THEN added.pipe ELSE self_pipe
        routed == add_route(with_summit, summit_id, post_data.route)
        st == [pipe |-> routed.pipe,
               calls |-> calls
                   \o (IF cached = None
                       THEN <<PipeCall("add_summit", None, post_data.peak, added)>>
                       ELSE <<>>)
                   \o <<PipeCall("add_route", summit_id, post_data.route, routed)>>]
    IN IF is_forbidden(post_data.peak)
       THEN [pipe |-> self_pipe, calls |-> calls, hashes |-> hashes]
       ELSE [pipe |-> AddPosts(st, routed.id, post_data.posts).pipe,
             calls |-> AddPosts(st, routed.id, post_data.posts).calls,
             hashes |-> IF cached = None THEN (key :> added.id) @@ hashes ELSE hashes]

\* what parse_page returns for a page: new objects for the peak, the route
\* and its posts
PageData(page, page_id) ==
    [peak |-> Summit(page_id, <<>>, <<>>, <<page.peak_name>>, UNDEFINED_GEOPOSITION),
     route |-> Route(page_id, "r", "", missing_grade),
     posts |-> [i \in 1..page.posts |-> Post(page_id, <<"johndoe", 1, "", 1>>)]]

\* _perform_scan, one pass of the loop over page_ids
tsScanPage ==
    /\ Len(ts_pages) < MaxPages
    /\ \E page \in ScannedPages :
          /\ ts_pages' = Append(ts_pages, page)
          /\ IF page.kind = "PageData"
             THEN \E res \in {perform_scan(cd_pipe, cd_calls, added_peak_name_hashes,
                                            PageData(page, Len(ts_pages)))} :
                     /\ cd_pipe' = res.pipe
                     /\ cd_calls' = res.calls
                     /\ added_peak_name_hashes' = res.hashes
             ELSE UNCHANGED <<cd_pipe, cd_calls, added_peak_name_hashes>>
    /\ UNCHANGED str_hash

-----------------------------------------------------------------------------
(* The relational database boundary: Sqlite3Database, the sqlite3 connections
   it opens and the destination file *)

InvalidStateError == <<"InvalidStateError">>

\* NameUsage
NameUsage_official == 0
NameUsage_alternate == 1

\* NULL, the result of a scalar subquery without rows
Null == 0

\* the tables of a database file whose schema was created; routes_sequence is
\* the highest id AUTOINCREMENT has used for routes
EmptyTables ==
    [summits |-> <<>>, summit_names |-> <<>>, routes |-> <<>>, posts |-> <<>>,
     routes_sequence |-> 0]

\* Sqlite3Database.__init__: no handle (0 stands for None); no connection was
\* opened, nothing was executed; the destination file may be left from an
\* earlier run.  limit_1 is the row sqlite returns for LIMIT 1 without ORDER BY
\* when several rows match, which is up to its query plan.
Sqlite3Database(file_exists) ==
    [db_handle |-> 0, connections |-> 0, closed |-> <<>>, file_exists |-> file_exists,
     tables |-> EmptyTables, last_insert_rowid |-> 0, log |-> <<>>, limit_1 |-> "first"]

\* LIMIT 1 on the matching rows
Limit1(hits, limit_1) == IF limit_1 = "first" THEN hits[1] ELSE hits[Len(hits)]

\* a statement without parameters
SqlStatement(text) == [text |-> text, params |-> <<>>]

\* (SELECT summit_id FROM summit_names WHERE name=? AND usage=0 LIMIT 1)
SelectSummit(tables, limit_1, name) ==
    LET hits == SelectSeq(tables.summit_names,
                          LAMBDA row : row.name = name /\ row.usage = 0)
    IN IF hits = <<>> THEN Null ELSE Limit1(hits, limit_1).summit_id

\* (SELECT id FROM routes WHERE summit_id=(select_summit) AND route_name=? LIMIT 1)
SelectRoute(tables, limit_1, summit_name, route_name) ==
    LET summit_id == SelectSummit(tables, limit_1, summit_name)
        hits == SelectSeq(tables.routes,
                          LAMBDA row : row.summit_id = summit_id /\ row.route_name = route_name)
    IN IF summit_id = Null \/ hits = <<>> THEN Null ELSE Limit1(hits, limit_1).id

IntegrityError(constraint) == <<"sqlite3.IntegrityError", constraint>>

\* what sqlite does with one statement on the tables of dbschema.py: the tables
\* and last_insert_rowid() afterwards, the rows returned and the error raised
RunStatement(tables, last_insert_rowid, limit_1, statement) ==
    LET unchanged == [tables |-> tables, last_insert_rowid |-> last_insert_rowid,
                      rows |-> <<>>, raised |-> NoError]
        failed(constraint) == [unchanged EXCEPT !.raised = IntegrityError(constraint)]
        p == statement.params
    IN CASE statement.text = "INSERT INTO summits" ->
                LET id == Len(tables.summits) + 1
                IN [unchanged EXCEPT
                       !.tables.summits =
                           Append(tables.summits,
                                  [id |-> id, latitude |-> p[1], longitude |-> p[2]]),
                       !.last_insert_rowid = id]
         [] statement.text = "INSERT INTO summit_names" ->
                LET row == [summit_id |-> p[1], name |-> p[2], usage |-> p[3]]
                IN IF row.name = <<>> THEN failed("NOT NULL")
                   ELSE IF row \in Range(tables.summit_names) THEN failed("PRIMARY KEY")
                   ELSE IF \A summit \in Range(tables.summits) : summit.id # row.summit_id
                   THEN failed("FOREIGN KEY")
                   ELSE [unchanged EXCEPT
                            !.tables.summit_names = Append(tables.summit_names, row),
                            !.last_insert_rowid = Len(tables.summit_names) + 1]
         [] statement.text = "INSERT OR IGNORE INTO routes" ->
                LET summit_id == SelectSummit(tables, limit_1, p[1])
                    id == tables.routes_sequence + 1
                    row == [id |-> id, summit_id |-> summit_id, route_name |-> p[2],
                            route_grade |-> p[3], grades |-> p[4]]
                IN IF summit_id = Null THEN unchanged
                   ELSE IF \E r \in Range(tables.routes) :
                              /\ r.summit_id = row.summit_id
                              /\ r.route_name = row.route_name
                              /\ r.route_grade = row.route_grade
                   \* the ignored row has used up an id
                   THEN [unchanged EXCEPT !.tables.routes_sequence = id]
                   ELSE IF \A summit \in Range(tables.summits) : summit.id # summit_id
                   THEN failed("FOREIGN KEY")
                   ELSE [unchanged EXCEPT !.tables.routes = Append(tables.routes, row),
                                          !.tables.routes_sequence = id,
                                          !.last_insert_rowid = id]
         [] statement.text = "INSERT OR IGNORE INTO posts" ->
                LET route_id == SelectRoute(tables, limit_1, p[1], p[2])
                    id == Len(tables.posts) + 1
                IN IF route_id = Null THEN unchanged
                   ELSE [unchanged EXCEPT
                            !.tables.posts =
                                Append(tables.posts,
                                       [id |-> id, route_id |-> route_id, data |-> p[3]]),
                            !.last_insert_rowid = id]
         [] statement.text = "SELECT last_insert_rowid() as rowid" ->
                [unchanged EXCEPT !.rows = <<last_insert_rowid>>]
         [] OTHER -> unchanged

\* sqlite3.Connection.execute on the connection self._db_handle: the statement
\* is issued; sqlite rejects it for a reason of its own (fails), or runs it
Connection_execute(self, statement, fails) ==
    LET issued == [self EXCEPT !.log = Append(self.log, <<self.db_handle, statement.text>>)]
        res == RunStatement(self.tables, self.last_insert_rowid, self.limit_1, statement)
    IN IF fails
       THEN [db |-> issued, rows |-> <<>>, raised |-> <<"sqlite3.OperationalError">>]
       ELSE [db |-> [issued EXCEPT !.tables = res.tables,
                                   !.last_insert_rowid = res.last_insert_rowid],
             rows |-> res.rows, raised |-> res.raised]

\* Sqlite3Database.__enter__
enter(self, fails) ==
    IF self.db_handle = 0
    THEN [db |-> self, rows |-> <<>>, raised |-> InvalidStateError]
    ELSE Connection_execute(self, SqlStatement("BEGIN TRANSACTION"), fails)

\* Sqlite3Database.__exit__ that commits whatever happened in the scope
exit_AlwaysCommit(self, exc_type, fails) ==
    IF self.db_handle = 0
    THEN [db |-> self, rows |-> <<>>, raised |-> InvalidStateError]
    ELSE Connection_execute(self, SqlStatement("COMMIT TRANSACTION"), fails)

\* Sqlite3Database.__exit__: exc_type is NoError for None.  It returns False,
\* so the error of the scope is never swallowed.
exit(self, exc_type, fails) ==
    IF self.db_handle = 0
    THEN [db |-> self, rows |-> <<>>, raised |-> InvalidStateError]
    ELSE IF exc_type = NoError
    THEN Connection_execute(self, SqlStatement("COMMIT TRANSACTION"), fails)
    ELSE Connection_execute(self, SqlStatement("ROLLBACK TRANSACTION"), fails)

\* the three PRAGMA statements of connect
ConnectPragmas ==
    <<"PRAGMA synchronous=off", "PRAGMA journal_mode=memory", "PRAGMA foreign_keys=true;">>

\* Sqlite3Database.connect; sqlite3_connect raises when fails
connect(self, overwrite, fails) ==
    LET unlinked == IF overwrite THEN [self EXCEPT !.file_exists = FALSE] ELSE self
        handle == self.connections + 1
    IN IF ~overwrite /\ self.file_exists
       THEN [db |-> self, rows |-> <<>>, raised |-> <<"FileExistsError">>]
       ELSE IF fails
       THEN [db |-> unlinked, rows |-> <<>>, raised |-> <<"sqlite3.OperationalError">>]
       ELSE [db |-> [unlinked EXCEPT
                        !.db_handle = handle,
                        !.connections = handle,
                        !.file_exists = TRUE,
                        !.tables = EmptyTables,
                        !.last_insert_rowid = 0,
                        !.log = self.log \o [i \in 1..3 |-> <<handle, ConnectPragmas[i]>>]],
             rows |-> <<>>, raised |-> NoError]

\* Sqlite3Database.disconnect that closes the handle but keeps it
disconnect_KeepsHandle(self) ==
    IF self.db_handle # 0
    THEN [db |-> [self EXCEPT !.closed = Append(self.closed, self.db_handle),
                              !.log = Append(self.log, <<self.db_handle, "close">>)],
          rows |-> <<>>, raised |-> NoError]
    ELSE [db |-> self, rows |-> <<>>, raised |-> NoError]

\* Sqlite3Database.disconnect
disconnect(self) ==
    IF self.db_handle # 0
    THEN [db |-> [self EXCEPT !.closed = Append(self.closed, self.db_handle),
                              !.log = Append(self.log, <<self.db_handle, "close">>),
                              !.db_handle = 0],
          rows |-> <<>>, raised |-> NoError]
    ELSE [db |-> self, rows |-> <<>>, raised |-> NoError]

\* Sqlite3Database.is_connected
is_connected(self) == self.db_handle # 0

\* Sqlite3Database.execute_write
execute_write(self, query, fails) ==
    IF self.db_handle = 0
    THEN [db |-> self, rows |-> <<>>, raised |-> InvalidStateError]
    ELSE [Connection_execute(self, query, fails) EXCEPT !.rows = <<>>]

\* Sqlite3Database.execute_read
execute_read(self, query, fails) ==
    IF self.db_handle = 0
    THEN [db |-> self, rows |-> <<>>, raised |-> InvalidStateError]
    ELSE Connection_execute(self, query, fails)

-----------------------------------------------------------------------------
(* The WRITE filter: DbSchemaV1Filter._execute_sink_filter *)

\* a run of the filter so far: the database, the number of calls made on the
\* boundary, the rows the last call returned and the error that is propagating
StartRun(db) == [db |-> db, calls |-> 0, rows |-> <<>>, raised |-> NoError]

\* one call on self.__database_boundary: skipped while an error propagates;
\* the call number fail_at is the one sqlite rejects (0: none).  (CHOOSE from
\* a one-element set names a value that is computed once.)
BoundaryCall(run, fail_at, Method(_, _)) ==
    CHOOSE next \in
        {IF r.raised # NoError THEN r
         ELSE CHOOSE called \in
                  {[db |-> res.db, calls |-> r.calls + 1, rows |-> res.rows,
                    raised |-> res.raised] : res \in {Method(r.db, r.calls + 1 = fail_at)}} :
                  TRUE
         : r \in {run}} : TRUE

\* execute_write(query) for each query of a list, in order
RECURSIVE WriteAll(_, _, _)
WriteAll(run, fail_at, queries) ==
    IF queries = <<>> THEN run
    ELSE WriteAll(BoundaryCall(run, fail_at,
                               LAMBDA db, fails : execute_write(db, Head(queries), fails)),
                  fail_at, Tail(queries))

\* DatabaseSchema.get_table_schemata: table_ddl() and index_ddl() of each table
SchemaStatements ==
    <<SqlStatement("CREATE TABLE database_metadata"),
      SqlStatement("CREATE TABLE summit_names"),
      SqlStatement("CREATE INDEX IdxSummitName"),
      SqlStatement("CREATE TABLE summits"),
      SqlStatement("CREATE TABLE routes"),
      SqlStatement("CREATE INDEX IdxRouteName"),
      SqlStatement("CREATE TABLE posts")>>

\* DbSchemaV1Filter._initialize_database: _create_schema and _write_metadata
initialize_database(run, fail_at) ==
    WriteAll(run, fail_at,
             Append(SchemaStatements, SqlStatement("INSERT OR IGNORE INTO database_metadata")))

\* _finalize_database with the two statements in the other order
finalize_database_VacuumFirst(run, fail_at) ==
    WriteAll(run, fail_at, <<SqlStatement("VACUUM"), SqlStatement("ANALYZE")>>)

\* DbSchemaV1Filter._finalize_database
finalize_database(run, fail_at) ==
    WriteAll(run, fail_at, <<SqlStatement("ANALYZE"), SqlStatement("VACUUM")>>)

\* Summit.high_grade_position: the position that is written
high_grade_position(summit) == summit.position

\* DbSchemaV1Filter._write_to_summits_table: the run afterwards; the id of the
\* new record is its rows[1]
write_to_summits_table(run, fail_at, summit) ==
    LET insert == [text |-> "INSERT INTO summits",
                   params |-> <<high_grade_position(summit).latitude,
                                high_grade_position(summit).longitude>>]
        written == BoundaryCall(run, fail_at,
                                LAMBDA db, fails : execute_write(db, insert, fails))
    IN BoundaryCall(written, fail_at,
                    LAMBDA db, fails :
                        execute_read(db, SqlStatement("SELECT last_insert_rowid() as rowid"),
                                     fails))

\* the INSERT of _write_to_summit_names_table
InsertSummitName(summit_id, name, usage) ==
    [text |-> "INSERT INTO summit_names", params |-> <<summit_id, name, usage>>]

\* _write_to_summit_names_table that writes every name as an official one
write_to_summit_names_table_AllOfficial(run, fail_at, summit_id, summit) ==
    IF summit.official_name # <<>>
    THEN WriteAll(run, fail_at,
                  <<InsertSummitName(summit_id, summit.official_name, NameUsage_official)>>
                      \o [i \in 1..Len(summit.alternate_names) |->
                             InsertSummitName(summit_id, summit.alternate_names[i],
                                              NameUsage_official)])
    ELSE WriteAll(run, fail_at,
                  <<InsertSummitName(summit_id, SummitName(summit), NameUsage_official)>>)

\* DbSchemaV1Filter._write_to_summit_names_table
write_to_summit_names_table(run, fail_at, summit_id, summit) ==
    IF summit.official_name # <<>>
    THEN WriteAll(run, fail_at,
                  <<InsertSummitName(summit_id, summit.official_name, NameUsage_official)>>
                      \o [i \in 1..Len(summit.alternate_names) |->
                             InsertSummitName(summit_id, summit.alternate_names[i],
                                              NameUsage_alternate)])
    ELSE WriteAll(run, fail_at,
                  <<InsertSummitName(summit_id, SummitName(summit), NameUsage_official)>>)

\* DbSchemaV1Filter._add_summit
DbSchemaV1Filter_add_summit(run, fail_at, summit) ==
    CHOOSE added \in
        {IF written.raised # NoError THEN written
         ELSE write_to_summit_names_table(written, fail_at, written.rows[1], summit)
         : written \in {write_to_summits_table(run, fail_at, summit)}} : TRUE

\* DbSchemaV1Filter._add_route
DbSchemaV1Filter_add_route(run, fail_at, summit_name, route) ==
    BoundaryCall(run, fail_at,
                 LAMBDA db, fails :
                     execute_write(db, [text |-> "INSERT OR IGNORE INTO routes",
                                        params |-> <<summit_name, route.route_name,
                                                     route.grade, route.grades>>], fails))

\* DbSchemaV1Filter._add_post
DbSchemaV1Filter_add_post(run, fail_at, summit_name, route_name, post) ==
    BoundaryCall(run, fail_at,
                 LAMBDA db, fails :
                     execute_write(db, [text |-> "INSERT OR IGNORE INTO posts",
                                        params |-> <<summit_name, route_name, post.data>>],
                                   fails))

\* for post in input_pipe.iter_posts_of_route(route_id): self._add_post(...)
RECURSIVE SinkPosts(_, _, _, _, _)
SinkPosts(run, fail_at, summit_name, route_name, post_iter) ==
    IF post_iter = <<>> THEN run
    ELSE SinkPosts(DbSchemaV1Filter_add_post(run, fail_at, summit_name, route_name,
                                              Head(post_iter)),
                    fail_at, summit_name, route_name, Tail(post_iter))

\* for route_id, route in input_pipe.iter_routes_of_summit(summit_id): ...
RECURSIVE SinkRoutes(_, _, _, _, _)
SinkRoutes(run, fail_at, input_pipe_read, summit_name, route_iter) ==
    IF route_iter = <<>> THEN run
    ELSE LET route_id == Head(route_iter)[1]
             route == Head(route_iter)[2]
             added == DbSchemaV1Filter_add_route(run, fail_at, summit_name, route)
         IN SinkRoutes(SinkPosts(added, fail_at, summit_name, route.route_name,
                                   iter_posts_of_route(input_pipe_read, route_id)),
                        fail_at, input_pipe_read, summit_name, Tail(route_iter))

\* for summit_id, summit in input_pipe.iter_summits(): ...
RECURSIVE SinkSummits(_, _, _, _)
SinkSummits(run, fail_at, input_pipe_read, summit_iter) ==
    IF summit_iter = <<>> THEN run
    ELSE LET summit_id == Head(summit_iter)[1]
             summit == Head(summit_iter)[2]
             added == DbSchemaV1Filter_add_summit(run, fail_at, summit)
         IN SinkSummits(SinkRoutes(added, fail_at, input_pipe_read, SummitName(summit),
                                     iter_routes_of_summit(input_pipe_read, summit_id)),
                         fail_at, input_pipe_read, Tail(summit_iter))

\* DbSchemaV1Filter._execute_sink_filter
execute_sink_filter(db, input_pipe_read, fail_at) ==
    LET connected == BoundaryCall(StartRun(db), fail_at,
                                  LAMBDA d, fails : connect(d, TRUE, fails))
        initialized == initialize_database(connected, fail_at)
        written == SinkSummits(initialized, fail_at, input_pipe_read,
                                iter_summits(input_pipe_read))
        finalized == finalize_database(written, fail_at)
    IN BoundaryCall(finalized, fail_at, LAMBDA d, fails : disconnect(d))

\* the summits handed to the WRITE filter: an official name only; an official
\* and an alternate name; alternate names only; an unspecified name only; the
\* same alternate name twice (as OSM tags alt_name and loc_name can give)
WrittenSummitShapes ==
    {SummitShape(NameA, <<>>, <<>>, <<>>),
     SummitShape(NameA, <<NameB>>, <<>>, <<>>),
     SummitShape(<<>>, <<NameA, NameB>>, <<>>, <<>>),
     SummitShape(<<>>, <<>>, <<NameB>>, <<>>),
     SummitShape(NameB, <<NameUpperA, NameUpperA>>, <<>>, <<>>)}

\* an earlier stage adds a post to the route it added last
wfAddPost ==
    /\ mf_pc = "importing"
    /\ PipeSize(input_pipe) < MaxWrittenPipeSize
    /\ input_pipe.routes # <<>>
    /\ Len(input_pipe.routes) - 1
          \in Range(DictGet(input_pipe.routes2summits, Len(input_pipe.summits) - 1))
    /\ \E d \in PostData :
          input_pipe' = add_post(input_pipe, Len(input_pipe.routes) - 1,
                                 Post(Len(input_pipe.posts), d)).pipe
    /\ UNCHANGED <<output_pipe, merged_summit_data, mf_pc, mf_next, mf_last>>

\* the database boundary the filter is constructed with
wfInit == \E file_exists \in BOOLEAN, limit_1 \in {"first", "last"} :
    /\ database = [Sqlite3Database(file_exists) EXCEPT !.limit_1 = limit_1]
    /\ db_last = [op |-> "none"]

\* SinkFilter.execute_filter(input_pipe, output_pipe): one run of
\* _execute_sink_filter, in which sqlite rejects at most one call
wfExecuteFilter ==
    /\ mf_pc = "importing"
    /\ \E fail_at \in 0..execute_sink_filter(database, input_pipe, 0).calls :
          \E run \in {execute_sink_filter(database, input_pipe, fail_at)} :
             /\ database' = run.db
             /\ db_last' = [op |-> "execute_sink_filter", before |-> database,
                            fail_at |-> fail_at, raised |-> run.raised]
    /\ mf_pc' = "done"
    /\ UNCHANGED <<input_pipe, output_pipe, merged_summit_data, mf_next, mf_last>>

-----------------------------------------------------------------------------
(* Sqlite3Database driven through its interface by any caller.  `scopes` is
   the caller's position: the `with database:` blocks entered and not yet left. *)

dbInit == \E file_exists \in BOOLEAN :
    /\ database = Sqlite3Database(file_exists)
    /\ db_last = [op |-> "none", scopes |-> 0]

\* the statements issued so far, the PRAGMAs of connect and close() aside
IssuedStatements(db) ==
    SelectSeq(db.log, LAMBDA e : e[2] \notin Range(ConnectPragmas) \cup {"close"})

\* sqlite3.Error, or any error raised inside a `with database:` block
ScopeErrors == {NoError, <<"ValueError">>}

\* the record of one call
DbCall(op, arg, res, scopes) ==
    [op |-> op, arg |-> arg, before |-> database, raised |-> res.raised, scopes |-> scopes]

\* connect(destination_file, overwrite=...)
dbConnect ==
    \E overwrite \in BOOLEAN, fails \in BOOLEAN :
        LET res == connect(database, overwrite, fails)
        IN /\ res.db.connections <= MaxConnections
           /\ database' = res.db
           /\ db_last' = DbCall("connect", overwrite, res, db_last.scopes)

\* disconnect()
dbDisconnect ==
    LET res == disconnect(database)
    IN /\ database' = res.db
       /\ db_last' = DbCall("disconnect", <<>>, res, db_last.scopes)

\* execute_write(query)
dbExecuteWrite ==
    /\ Len(IssuedStatements(database)) < MaxStatements
    /\ \E fails \in BOOLEAN :
          LET res == execute_write(database, SqlStatement("ANALYZE"), fails)
          IN /\ database' = res.db
             /\ db_last' = DbCall("execute_write", <<>>, res, db_last.scopes)

\* execute_read(query)
dbExecuteRead ==
    /\ Len(IssuedStatements(database)) < MaxStatements
    /\ \E fails \in BOOLEAN :
          LET res == execute_read(database,
                                  SqlStatement("SELECT last_insert_rowid() as rowid"), fails)
          IN /\ database' = res.db
             /\ db_last' = DbCall("execute_read", <<>>, res, db_last.scopes)

\* `with database:` is entered: __enter__; the block is only entered when
\* __enter__ raises nothing
dbEnter ==
    /\ Len(IssuedStatements(database)) < MaxStatements
    /\ \E fails \in BOOLEAN :
          LET res == enter(database, fails)
          IN /\ database' = res.db
             /\ db_last' = DbCall("enter", <<>>, res,
                                  IF res.raised = NoError THEN db_last.scopes + 1
                                  ELSE db_last.scopes)

\* a `with database:` block is left, normally or by an error: __exit__
dbExit ==
    /\ db_last.scopes > 0
    /\ Len(IssuedStatements(database)) < MaxStatements
    /\ \E exc_type \in ScopeErrors, fails \in BOOLEAN :
          LET res == exit(database, exc_type, fails)
          IN /\ database' = res.db
             /\ db_last' = [DbCall("exit", exc_type, res, db_last.scopes - 1)
                               EXCEPT !.raised = IF res.raised # NoError THEN res.raised
                                                 ELSE exc_type]

dbIdle == database = Sqlite3Database(FALSE) /\ db_last = [op |-> "none", scopes |-> 0]

ucIdle ==
    /\ stages = <<>> /\ uc_pc = "off" /\ stage_idx = 0 /\ filter_idx = 0 /\ pipe = 0
    /\ previous_pipe = 0 /\ created_pipes = <<>> /\ instantiated = <<>> /\ executed = <<>>

mfIdle ==
    /\ input_pipe = CollectedData /\ output_pipe = CollectedData
    /\ merged_summit_data = <<>> /\ mf_pc = "off" /\ mf_next = 0 /\ mf_last = [op |-> "none"]

decIdle == dec_summits = <<>> /\ dec_calls = 0 /\ dec_last = [op |-> "none"]

tsIdle == str_hash = <<>> /\ added_peak_name_hashes = <<>> /\ ts_pages = <<>>

nnIdle == nn_name = <<>> /\ identifiers = <<>>

dpIdle == dec_routes = <<>> /\ dec_posts = <<>> /\ delegate = <<>> /\ dec_accepted = <<>>

-----------------------------------------------------------------------------
(* Specifications *)

\* one run of produce_routedb for every shape of the filter factory
InitEngine == ucInit /\ mfIdle /\ decIdle /\ cdIdle /\ dbIdle /\ tsIdle /\ dpIdle /\ nnIdle

NextEngine ==
    \/ ucStart /\ UNCHANGED <<mfVars, decVars, cdVars, dbVars, tsVars, dpVars, nnVars>>
    \/ ucNextStage /\ UNCHANGED <<mfVars, decVars, cdVars, dbVars, tsVars, dpVars, nnVars>>
    \/ ucFinish /\ UNCHANGED <<mfVars, decVars, cdVars, dbVars, tsVars, dpVars, nnVars>>
    \/ ucFilterReturns /\ UNCHANGED <<mfVars, decVars, cdVars, dbVars, tsVars, dpVars, nnVars>>
    \/ ucFilterRaises /\ UNCHANGED <<mfVars, decVars, cdVars, dbVars, tsVars, dpVars, nnVars>>
    \/ ucStageDone /\ UNCHANGED <<mfVars, decVars, cdVars, dbVars, tsVars, dpVars, nnVars>>

SpecEngine == InitEngine /\ [][NextEngine]_vars

\* MergeFilter runs on pipes of summits without routes
InitMerge == mfInit /\ ucIdle /\ decIdle /\ cdIdle /\ dbIdle /\ tsIdle /\ dpIdle /\ nnIdle

NextMerge ==
    \/ mfAddSummit(SummitShapes, MaxSummits, MaxSummits) /\ UNCHANGED <<ucVars, decVars, cdVars, dbVars, tsVars, dpVars, nnVars>>
    \/ mfStart /\ UNCHANGED <<ucVars, decVars, cdVars, dbVars, tsVars, dpVars, nnVars>>
    \/ mfMerge /\ UNCHANGED <<ucVars, decVars, cdVars, dbVars, tsVars, dpVars, nnVars>>
    \/ mfWrite /\ UNCHANGED <<ucVars, decVars, cdVars, dbVars, tsVars, dpVars, nnVars>>

SpecMerge == InitMerge /\ [][NextMerge]_vars

\* MergeFilter runs on pipes of summits with several names
NextMergeNames ==
    \/ mfAddSummit(NamedSummitShapes, MaxSummits, MaxSummits) /\ UNCHANGED <<ucVars, decVars, cdVars, dbVars, tsVars, dpVars, nnVars>>
    \/ mfStart /\ UNCHANGED <<ucVars, decVars, cdVars, dbVars, tsVars, dpVars, nnVars>>
    \/ mfMerge /\ UNCHANGED <<ucVars, decVars, cdVars, dbVars, tsVars, dpVars, nnVars>>
    \/ mfWrite /\ UNCHANGED <<ucVars, decVars, cdVars, dbVars, tsVars, dpVars, nnVars>>

SpecMergeNames == InitMerge /\ [][NextMergeNames]_vars

\* MergeFilter runs on pipes of summits with graded routes
NextMergeRoutes ==
    \/ mfAddSummit(RouteRunSummitShapes, MaxGradedPipeSize, MaxRouteRunSummits) /\ UNCHANGED <<ucVars, decVars, cdVars, dbVars, tsVars, dpVars, nnVars>>
    \/ mfAddRoute(RouteShapes, MaxGradedPipeSize) /\ UNCHANGED <<ucVars, decVars, cdVars, dbVars, tsVars, dpVars, nnVars>>
    \/ mfStart /\ UNCHANGED <<ucVars, decVars, cdVars, dbVars, tsVars, dpVars, nnVars>>
    \/ mfMerge /\ UNCHANGED <<ucVars, decVars, cdVars, dbVars, tsVars, dpVars, nnVars>>
    \/ mfWrite /\ UNCHANGED <<ucVars, decVars, cdVars, dbVars, tsVars, dpVars, nnVars>>

SpecMergeRoutes == InitMerge /\ [][NextMergeRoutes]_vars

\* MergeFilter runs on pipes of summits with ungraded routes and their posts
NextMergePosts ==
    \/ mfAddSummit(RouteRunSummitShapes, MaxPipeSize, MaxRouteRunSummits) /\ UNCHANGED <<ucVars, decVars, cdVars, dbVars, tsVars, dpVars, nnVars>>
    \/ mfAddRoute(UngradedRouteShapes, MaxPipeSize) /\ UNCHANGED <<ucVars, decVars, cdVars, dbVars, tsVars, dpVars, nnVars>>
    \/ mfAddPost /\ UNCHANGED <<ucVars, decVars, cdVars, dbVars, tsVars, dpVars, nnVars>>
    \/ mfStart /\ UNCHANGED <<ucVars, decVars, cdVars, dbVars, tsVars, dpVars, nnVars>>
    \/ mfMerge /\ UNCHANGED <<ucVars, decVars, cdVars, dbVars, tsVars, dpVars, nnVars>>
    \/ mfWrite /\ UNCHANGED <<ucVars, decVars, cdVars, dbVars, tsVars, dpVars, nnVars>>

SpecMergePosts == InitMerge /\ [][NextMergePosts]_vars

\* DataValidationFilter runs on pipes of summits, routes and posts
NextValidate ==
    \/ mfAddSummit(ValidatedSummitShapes, MaxValidatedPipeSize, MaxSummits) /\ UNCHANGED <<ucVars, decVars, cdVars, dbVars, tsVars, dpVars, nnVars>>
    \/ vfAddRoute /\ UNCHANGED <<ucVars, decVars, cdVars, dbVars, tsVars, dpVars, nnVars>>
    \/ vfAddPost /\ UNCHANGED <<ucVars, decVars, cdVars, dbVars, tsVars, dpVars, nnVars>>
    \/ vfExecuteFilter /\ UNCHANGED <<ucVars, decVars, cdVars, dbVars, tsVars, dpVars, nnVars>>

SpecValidate == InitMerge /\ [][NextValidate]_vars

\* Summit.enrich on every pair of summits
InitEnrich == enInit /\ ucIdle /\ mfIdle /\ cdIdle /\ dbIdle /\ tsIdle /\ dpIdle /\ nnIdle

NextEnrich == enEnrich /\ UNCHANGED <<ucVars, mfVars, cdVars, dbVars, tsVars, dpVars, nnVars>>

SpecEnrich == InitEnrich /\ [][NextEnrich]_vars

\* a MergingPipeDecorator collecting summits
InitDecorator == decInit /\ ucIdle /\ mfIdle /\ cdIdle /\ dbIdle /\ tsIdle /\ dpIdle /\ nnIdle

NextDecorator == decAddOrEnrichSummit /\ UNCHANGED <<ucVars, mfVars, cdVars, dbVars, tsVars, dpVars, nnVars>>

SpecDecorator == InitDecorator /\ [][NextDecorator]_vars

\* any sequence of add_summit/add_route/add_post calls on one CollectedData
InitPipe == cdInit /\ ucIdle /\ mfIdle /\ decIdle /\ dbIdle /\ tsIdle /\ dpIdle /\ nnIdle

NextPipe ==
    \/ cdAddSummit /\ UNCHANGED <<ucVars, mfVars, decVars, dbVars, tsVars, dpVars, nnVars>>
    \/ cdAddRoute /\ UNCHANGED <<ucVars, mfVars, decVars, dbVars, tsVars, dpVars, nnVars>>
    \/ cdAddPost /\ UNCHANGED <<ucVars, mfVars, decVars, dbVars, tsVars, dpVars, nnVars>>

SpecPipe == InitPipe /\ [][NextPipe]_vars

\* one run of the WRITE filter on every input pipe an earlier stage can leave
InitWrite == mfInit /\ ucIdle /\ decIdle /\ cdIdle /\ wfInit /\ tsIdle /\ dpIdle /\ nnIdle

NextWrite ==
    \/ mfAddSummit(WrittenSummitShapes, MaxWrittenPipeSize, MaxRouteRunSummits)
          /\ UNCHANGED <<ucVars, decVars, cdVars, dbVars, tsVars, dpVars, nnVars>>
    \/ mfAddRoute(UngradedRouteShapes, MaxWrittenPipeSize)
          /\ UNCHANGED <<ucVars, decVars, cdVars, dbVars, tsVars, dpVars, nnVars>>
    \/ wfAddPost /\ UNCHANGED <<ucVars, decVars, cdVars, dbVars, tsVars, dpVars, nnVars>>
    \/ wfExecuteFilter /\ UNCHANGED <<ucVars, decVars, cdVars, tsVars, dpVars, nnVars>>

SpecWrite == InitWrite /\ [][NextWrite]_vars

\* one run of the teufelsturm filter of a new TeufelsturmDataFilter on a new pipe
InitTeufelsturm == tsInit /\ cdInit /\ ucIdle /\ mfIdle /\ decIdle /\ dbIdle /\ dpIdle /\ nnIdle

NextTeufelsturm == tsScanPage /\ UNCHANGED <<ucVars, mfVars, decVars, dbVars, dpVars, nnVars>>

SpecTeufelsturm == InitTeufelsturm /\ [][NextTeufelsturm]_vars

\* any sequence of calls on one MergingPipeDecorator, up to finalize_pipe
InitDecoratorRoutes ==
    decInit /\ dpInit /\ ucIdle /\ mfIdle /\ cdIdle /\ dbIdle /\ tsIdle /\ nnIdle

NextDecoratorRoutes ==
    \/ dpAddOrEnrichSummit /\ UNCHANGED <<ucVars, mfVars, cdVars, dbVars, tsVars, nnVars>>
    \/ dpAddOrEnrichRoute /\ UNCHANGED <<ucVars, mfVars, cdVars, dbVars, tsVars, nnVars>>
    \/ dpAddPost /\ UNCHANGED <<ucVars, mfVars, cdVars, dbVars, tsVars, nnVars>>
    \/ dpFinalizePipe /\ UNCHANGED <<ucVars, mfVars, cdVars, dbVars, tsVars, nnVars>>

SpecDecoratorRoutes == InitDecoratorRoutes /\ [][NextDecoratorRoutes]_vars

\* UniqueIdentifier on every name, and again on the string of the result
InitNormalize == nnInit /\ ucIdle /\ mfIdle /\ decIdle /\ cdIdle /\ dbIdle /\ tsIdle /\ dpIdle

NextNormalize ==
    \/ nnCreate /\ UNCHANGED <<ucVars, mfVars, decVars, cdVars, dbVars, tsVars, dpVars>>
    \/ nnCreateFromString /\ UNCHANGED <<ucVars, mfVars, decVars, cdVars, dbVars, tsVars, dpVars>>

SpecNormalize == InitNormalize /\ [][NextNormalize]_vars

\* any sequence of calls on one Sqlite3Database
InitDatabase == dbInit /\ ucIdle /\ mfIdle /\ decIdle /\ cdIdle /\ tsIdle /\ dpIdle /\ nnIdle

NextDatabase ==
    \/ dbConnect /\ UNCHANGED <<ucVars, mfVars, decVars, cdVars, tsVars, dpVars, nnVars>>
    \/ dbDisconnect /\ UNCHANGED <<ucVars, mfVars, decVars, cdVars, tsVars, dpVars, nnVars>>
    \/ dbExecuteWrite /\ UNCHANGED <<ucVars, mfVars, decVars, cdVars, tsVars, dpVars, nnVars>>
    \/ dbExecuteRead /\ UNCHANGED <<ucVars, mfVars, decVars, cdVars, tsVars, dpVars, nnVars>>
    \/ dbEnter /\ UNCHANGED <<ucVars, mfVars, decVars, cdVars, tsVars, dpVars, nnVars>>
    \/ dbExit /\ UNCHANGED <<ucVars, mfVars, decVars, cdVars, tsVars, dpVars, nnVars>>

SpecDatabase == InitDatabase /\ [][NextDatabase]_vars

-----------------------------------------------------------------------------
(* Properties of produce_routedb, checked under SpecEngine *)

\* the filters of all stages in the order the factory yields them
FactoryOrder == Flatten(stages)

\* C1: the filters are executed in factory order, each exactly once; every
\* filter of stage k reads the pipe created k-th and writes the pipe created
\* next, so the input of a stage is the output of the stage before it (the
\* pipe created before the loop for the first stage), every stage has one
\* output pipe of its own, and a run that returns has created stages+1 pipes.
C1_StagesChainPipes ==
    /\ Len(executed) <= Len(FactoryOrder)
    /\ \A i \in 1..Len(executed) :
          /\ executed[i].filter = FactoryOrder[i]
          /\ LET k == executed[i].filter[1]
             IN /\ k + 1 <= Len(created_pipes)
                /\ executed[i].input_pipe = created_pipes[k]
                /\ executed[i].output_pipe = created_pipes[k + 1]
    /\ \A i, j \in 1..Len(created_pipes) : created_pipes[i] = created_pipes[j] => i = j
    /\ uc_pc = "done" =>
          /\ Len(executed) = Len(FactoryOrder)
          /\ Len(created_pipes) = get_stage_count + 1
          /\ instantiated = FactoryOrder

\* a run of three stages of two filters each has returned
C1_Witness ==
    /\ uc_pc = "done"
    /\ Len(stages) >= 3
    /\ \A k \in 1..3 : Len(stages[k]) = 2
    /\ Len(executed) >= 6

ValueModelIsExact == mf_last.op = "merge_entity" => ~mf_last.shared

-----------------------------------------------------------------------------
(* Properties of MergeFilter on summits, checked under SpecMerge *)

Min(S) == CHOOSE x \in S : \A y \in S : x <= y

OutputNames(i) == get_all_normalized_names(output_pipe.summits[i])

SharingPairs ==
    {<<i, j>> \in (1..Len(output_pipe.summits)) \X (1..Len(output_pipe.summits)) :
        i # j /\ OutputNames(i) \cap OutputNames(j) # {}}

\* C3 as stated: when execute_filter has completed, no two different summits
\* of the output pipe have a normalized name in common.
C3_DisjointNames == mf_pc = "done" => SharingPairs = {}

\* C3 amended: when execute_filter has completed, two different summits of
\* the output pipe have a normalized name in common only if neither position
\* is the UNDEFINED_GEOPOSITION object and the two are not within 200 m.
C3_NamesakesAreApart ==
    mf_pc = "done" =>
        \A pair \in SharingPairs :
            LET p == output_pipe.summits[pair[1]].position
                q == output_pipe.summits[pair[2]].position
            IN /\ p # UNDEFINED_GEOPOSITION
               /\ q # UNDEFINED_GEOPOSITION
               /\ ~is_within_radius(p, q, 200)

\* three summits came in, one was merged into another, and the two that are
\* left share a name
C3_Witness ==
    /\ mf_pc = "done"
    /\ Len(input_pipe.summits) = 3
    /\ Len(output_pipe.summits) = 2
    /\ SharingPairs # {}

\* the position is (0, 0), whichever object it is
IsUndefinedValue(position) == position.latitude = 0 /\ position.longitude = 0

\* the rule of C4 on two summits
C4_Rule(existing_summit, new_summit) ==
    /\ get_all_normalized_names(existing_summit) \cap get_all_normalized_names(new_summit) # {}
    /\ \/ IsUndefinedValue(existing_summit.position)
       \/ IsUndefinedValue(new_summit.position)
       \/ is_within_radius(existing_summit.position, new_summit.position, 200)

\* C4: merge_entity merges the incoming summit into existing ones exactly if
\* the rule holds for them: if it holds for none, the summit is appended as a
\* canonical summit of its own (and nothing raises); if it holds for some,
\* either the merge raises or one canonical summit stands for the incoming
\* one and all of those.
C4_MergedIffRule ==
    mf_last.op = "merge_entity" =>
        LET new_entity == mf_last.new_entity
            before == mf_last.before
            ruled == {i \in 1..Len(before) : C4_Rule(before[i].summit, new_entity.summit)}
        IN IF ruled = {}
           THEN /\ mf_last.raised = NoError
                /\ merged_summit_data = Append(before, new_entity)
           ELSE \/ mf_last.raised # NoError
                \/ /\ Len(merged_summit_data) = Len(before) - Cardinality(ruled) + 1
                   /\ \E k \in 1..Len(merged_summit_data) :
                         merged_summit_data[k].obs =
                             new_entity.obs \cup UNION {before[i].obs : i \in ruled}

\* C5: the summits are written in the order of their first observations: of
\* two written summits the earlier one was first observed earlier (obs holds
\* the input ids of the summits merged into a written one).
C5_FirstObservationOrder ==
    mf_last.op = "write" =>
        /\ Len(output_pipe.summits) = Len(mf_last.written)
        /\ \A i, j \in 1..Len(mf_last.written) :
              /\ output_pipe.summits[i] = mf_last.written[i].summit
              /\ i < j => Min(mf_last.written[i].obs) < Min(mf_last.written[j].obs)


-----------------------------------------------------------------------------
(* Properties of merge_entity on summits with several names, checked under *)
(* SpecMergeNames                                                           *)

\* the canonical summits that _is_same finds for the incoming one, in list order
MatchesOf(before, new_entity) ==
    SelectSeq(before, LAMBDA e : SummitMerger_is_same(e, new_entity))

\* the canonical summits that _is_same does not find
OthersOf(before, new_entity) ==
    SelectSeq(before, LAMBDA e : ~SummitMerger_is_same(e, new_entity))

\* target.enrich(s.summit) for every s of sources in order
RECURSIVE FoldSummits(_, _)
FoldSummits(target, sources) ==
    IF sources = <<>> THEN target
    ELSE FoldSummits(enrich(target, Head(sources).summit).summit, Tail(sources))

SummitsOf(entities) == {entities[i].summit : i \in 1..Len(entities)}

\* the names and the position of a summit
FieldsOf(summit) ==
    <<summit.official_name, summit.alternate_names, summit.unspecified_names, summit.position>>

\* the example of the MERGE rule: canonical summits known as "a" and as "b",
\* and an incoming summit with the official name "a" and the alternate name "b"
IsMergeExample ==
    /\ mf_last.op = "merge_entity"
    /\ Len(mf_last.before) = 2
    /\ FieldsOf(mf_last.before[1].summit) = <<<<>>, <<>>, <<NameA>>, UNDEFINED_GEOPOSITION>>
    /\ FieldsOf(mf_last.before[2].summit) = <<<<>>, <<>>, <<NameB>>, UNDEFINED_GEOPOSITION>>
    /\ FieldsOf(mf_last.new_entity.summit) = <<NameA, <<NameB>>, <<>>, UNDEFINED_GEOPOSITION>>

\* C21: a merge_entity call that returns normally appends the incoming summit
\* if it matches no canonical summit; if it matches k >= 1 of them, the first
\* match is enriched with the other matches in order and then with the
\* incoming summit, the other k-1 matches leave the canonical set, and the
\* summits that did not match stay as they are.  In the example the one
\* summit that is left has the official name "a", the alternate names ["b"]
\* and the unspecified names ["a", "b"].
C21_MatchesFoldIntoFirst ==
    (mf_last.op = "merge_entity" /\ mf_last.raised = NoError) =>
        LET before == mf_last.before
            new_entity == mf_last.new_entity
            matches == MatchesOf(before, new_entity)
        IN /\ IF matches = <<>>
              THEN merged_summit_data = Append(before, new_entity)
              ELSE /\ Len(merged_summit_data) = Len(before) - Len(matches) + 1
                   /\ SummitsOf(merged_summit_data) =
                         SummitsOf(OthersOf(before, new_entity))
                             \cup {FoldSummits(matches[1].summit,
                                               Tail(matches) \o <<new_entity>>)}
           /\ IsMergeExample =>
                 /\ Len(merged_summit_data) = 1
                 /\ FieldsOf(merged_summit_data[1].summit) =
                       <<NameA, <<NameB>>, <<NameA, NameB>>, UNDEFINED_GEOPOSITION>>
                 /\ merged_summit_data[1].summit.oid = before[1].summit.oid

\* the example has been merged
C21_Witness == IsMergeExample /\ mf_last.raised = NoError /\ Len(merged_summit_data) = 1

-----------------------------------------------------------------------------
(* Properties of merge_entity on every merger, checked under SpecMergePosts *)

\* the rule of the docstring of merge_entity on one call that returned `res`
LengthRule(kind, before, new_entity, res) ==
    res.raised = NoError =>
        LET k == Cardinality({i \in 1..Len(before) : is_same(kind, before[i], new_entity)})
        IN /\ res.entities # <<>>
           /\ Len(res.entities) = IF k = 0 THEN Len(before) + 1 ELSE Len(before) - (k - 1)

\* the rule on the merge_entity calls of the _RouteMerger that
\* _SummitMerger._merge_objects makes for the routes of one source summit
RECURSIVE RouteCallsKeepRule(_, _)
RouteCallsKeepRule(routes, source_routes) ==
    \/ source_routes = <<>>
    \/ LET one == merge_entity("route", routes, Head(source_routes))
       IN /\ LengthRule("route", routes, Head(source_routes), one)
          /\ one.raised = NoError => RouteCallsKeepRule(one.entities, Tail(source_routes))

\* the rule on the route mergers of all _merge_objects calls of one
\* merge_entity call of the _SummitMerger
RECURSIVE MergeCallsKeepRule(_, _)
MergeCallsKeepRule(target_object, merge_objects_left) ==
    \/ merge_objects_left = <<>>
    \/ LET merged == SummitMerger_merge_objects(target_object, Head(merge_objects_left))
       IN /\ RouteCallsKeepRule(target_object.routes, Head(merge_objects_left).routes)
          /\ merged.raised = NoError =>
                MergeCallsKeepRule(merged.entity, Tail(merge_objects_left))

\* C22: after every merge_entity call that returns normally the target list
\* is not empty, and it is one longer than before if the new entity matched
\* no entity of the list, as long as before if it matched exactly one, and
\* k-1 shorter if it matched k > 1 entities: for the call of the summit merger
\* and for the calls of the route mergers made within it.
C22_LengthRule ==
    mf_last.op = "merge_entity" =>
        LET objects == MatchesOf(mf_last.before, mf_last.new_entity) \o <<mf_last.new_entity>>
        IN /\ LengthRule("summit", mf_last.before, mf_last.new_entity,
                         [entities |-> merged_summit_data, raised |-> mf_last.raised])
           /\ MergeCallsKeepRule(Head(objects), Tail(objects))

\* C22 on the calls of the summit merger alone
C22_SummitLengthRule ==
    mf_last.op = "merge_entity" =>
        LengthRule("summit", mf_last.before, mf_last.new_entity,
                   [entities |-> merged_summit_data, raised |-> mf_last.raised])

-----------------------------------------------------------------------------
(* Properties of Summit.enrich, checked under SpecEnrich *)

SameCoordinates(p, q) == p.latitude = q.latitude /\ p.longitude = q.longitude

\* C6: enrich adopts the other position if the own one is UNDEFINED; with two
\* defined positions it raises MergeConflictError("summit", name, "position")
\* exactly if they are unequal; a position that is set stays as it is.  (The
\* official names are tested first: a call they end is none of this rule.)
C6_PositionRule ==
    (dec_last.op = "enrich"
        /\ enrich_official_name(dec_last.self, dec_last.other).raised = NoError) =>
        LET before == dec_last.self.position
            other == dec_last.other.position
            conflict == MergeConflictError("summit", SummitName(dec_last.other), "position")
        IN IF before = UNDEFINED_GEOPOSITION
           THEN dec_last.raised = NoError /\ dec_summits[1].position = other
           ELSE /\ dec_summits[1].position = before
                /\ dec_last.raised =
                      IF other # UNDEFINED_GEOPOSITION /\ ~SameCoordinates(before, other)
                      THEN conflict ELSE NoError

\* C7: an enrich call that raises leaves the summit as it was.
C7_RaiseKeepsData ==
    (dec_last.op = "enrich" /\ dec_last.raised # NoError) =>
        dec_summits = <<dec_last.self, dec_last.other>>

\* C11: a position with the coordinates (0, 0) is the UNDEFINED position,
\* whichever object holds it: enrich on a summit with such a position adopts
\* the position of the other summit and raises no position conflict, and
\* enrich with such a position on the other side raises none either.  (The
\* official names are tested first: a call they end is none of this rule.)
C11_ZeroIsUndefined ==
    (dec_last.op = "enrich"
        /\ enrich_official_name(dec_last.self, dec_last.other).raised = NoError) =>
        /\ IsUndefinedValue(dec_last.self.position) =>
              /\ dec_last.raised = NoError
              /\ dec_summits[1].position = dec_last.other.position
        /\ IsUndefinedValue(dec_last.other.position) => dec_last.raised = NoError

\* the names of s without those of `dropped`, in the order of s
Without(s, dropped) == SelectSeq(s, LAMBDA n : n \notin dropped)

\* no name twice
DuplicateFree(s) == \A i, j \in 1..Len(s) : s[i] = s[j] => i = j

\* the alternate names C23 expects after self.enrich(other) left the official
\* name `official_name`
ExpectedAlternateNames(self, other, official_name) ==
    Without(DictFromKeys(self.alternate_names \o other.alternate_names),
            IF official_name = <<>> THEN {} ELSE {official_name})

\* the summit keeps what the class documents: no alternate name twice, and
\* the official name is no alternate name
CleanNames(summit) ==
    /\ DuplicateFree(summit.alternate_names)
    /\ summit.official_name = <<>> \/ summit.official_name \notin Range(summit.alternate_names)

\* C23: after an enrich call that returns normally the alternate names of the
\* enriched summit are the names of the summit followed by those of the other
\* one, each name once at the place of its first occurrence, without the
\* official name; the official name is therefore no alternate name.
C23_AlternateNamesUnion ==
    (dec_last.op = "enrich" /\ dec_last.raised = NoError) =>
        /\ dec_summits[1].alternate_names =
              ExpectedAlternateNames(dec_last.self, dec_last.other,
                                     dec_summits[1].official_name)
        /\ dec_summits[1].official_name = <<>>
              \/ dec_summits[1].official_name \notin Range(dec_summits[1].alternate_names)

\* C23 for the calls on a summit whose alternate names hold no name twice
C23_UnionOfCleanNames ==
    (dec_last.op = "enrich" /\ dec_last.raised = NoError
        /\ DuplicateFree(dec_last.self.alternate_names)) =>
        /\ dec_summits[1].alternate_names =
              ExpectedAlternateNames(dec_last.self, dec_last.other,
                                     dec_summits[1].official_name)
        /\ CleanNames(dec_summits[1])

\* the two names are the same once normalized: "a" and "A" are, "b" is another
SameNormalizedName(x, y) == x = y \/ {x, y} = {NameA, NameUpperA}

\* C24: enrich leaves the official name alone if the other summit has none,
\* adopts the other one if the summit has none, keeps the own spelling if
\* both have one and the two are the same once normalized, and otherwise
\* raises MergeConflictError("summit", name of the other summit, "official
\* name") without changing the summit; it raises that error in no other case.
C24_OfficialNameRule ==
    dec_last.op = "enrich" =>
        LET own == dec_last.self.official_name
            incoming == dec_last.other.official_name
            conflict == MergeConflictError("summit", incoming, "official name")
        IN IF incoming = <<>>
           THEN dec_summits[1].official_name = own /\ dec_last.raised # conflict
           ELSE IF own = <<>>
           THEN dec_summits[1].official_name = incoming /\ dec_last.raised # conflict
           ELSE IF SameNormalizedName(own, incoming)
           THEN dec_summits[1].official_name = own /\ dec_last.raised # conflict
           ELSE dec_last.raised = conflict /\ dec_summits[1] = dec_last.self

\* a summit "a" has been enriched with a summit "A" and is still "a"
C24_Witness ==
    /\ dec_last.op = "enrich"
    /\ dec_last.self.official_name = NameA
    /\ dec_last.other.official_name = NameUpperA
    /\ dec_last.raised = NoError
    /\ dec_summits[1].official_name = NameA

-----------------------------------------------------------------------------
(* Properties of MergeFilter on routes, checked under SpecMergeRoutes *)

RouteNames(routes) == {routes[i].route.route_name : i \in 1..Len(routes)}

DistinctNames(routes) ==
    \A i, j \in 1..Len(routes) :
        routes[i].route.route_name = routes[j].route.route_name => i = j

\* the routes of an incoming summit that cannot be merged into the route of
\* the same name of the existing summit
GradeConflicts(existing_routes, new_routes) ==
    {i \in 1..Len(new_routes) :
        \E j \in 1..Len(existing_routes) :
            /\ existing_routes[j].route.route_name = new_routes[i].route.route_name
            /\ existing_routes[j].route.grades # <<0, 0, 0, 0, FALSE, 0>>
            /\ new_routes[i].route.grades
                  \notin {<<0, 0, 0, 0, FALSE, 0>>, existing_routes[j].route.grades}}

\* a merge_entity call that merged the incoming summit into the one existing
\* summit of its name, both without repeated route names
OneToOneMerge ==
    /\ mf_last.op = "merge_entity"
    /\ Len(mf_last.before) = 1
    /\ SummitMerger_is_same(mf_last.before[1], mf_last.new_entity)
    /\ DistinctNames(mf_last.before[1].routes)
    /\ DistinctNames(mf_last.new_entity.routes)

\* C8: when a route is merged into the route of its name, the grade tuple of
\* the existing route is replaced if it is (0,0,0,0,false,0), kept if the
\* incoming tuple is (0,0,0,0,false,0) or equal to it, and otherwise the merge
\* raises MergeConflictError("route", route_name, "grade") for the first such route.
C8_GradeRule ==
    OneToOneMerge =>
        LET existing_routes == mf_last.before[1].routes
            new_routes == mf_last.new_entity.routes
            conflicts == GradeConflicts(existing_routes, new_routes)
        IN IF conflicts # {}
           THEN mf_last.raised =
                    MergeConflictError("route", new_routes[Min(conflicts)].route.route_name,
                                       "grade")
           ELSE /\ mf_last.raised = NoError
                /\ Len(merged_summit_data) = 1
                /\ \A i \in 1..Len(new_routes), j \in 1..Len(existing_routes) :
                      existing_routes[j].route.route_name = new_routes[i].route.route_name =>
                          \E k \in 1..Len(merged_summit_data[1].routes) :
                              LET merged == merged_summit_data[1].routes[k].route
                              IN /\ merged.route_name = new_routes[i].route.route_name
                                 /\ merged.grades =
                                       IF existing_routes[j].route.grades
                                              = <<0, 0, 0, 0, FALSE, 0>>
                                       THEN new_routes[i].route.grades
                                       ELSE existing_routes[j].route.grades

\* an ungraded route took over the grade of the incoming route, and a graded
\* route kept its grade against an incoming ungraded one, in one merge
C8_Witness ==
    /\ OneToOneMerge
    /\ mf_last.raised = NoError
    /\ \E i \in 1..Len(mf_last.new_entity.routes), j \in 1..Len(mf_last.before[1].routes) :
          /\ mf_last.before[1].routes[j].route.route_name
                = mf_last.new_entity.routes[i].route.route_name
          /\ mf_last.before[1].routes[j].route.grades = <<0, 0, 0, 0, FALSE, 0>>
          /\ mf_last.new_entity.routes[i].route.grades # <<0, 0, 0, 0, FALSE, 0>>
          /\ \E k \in 1..Len(merged_summit_data[1].routes) :
                merged_summit_data[1].routes[k].route.grades
                    = mf_last.new_entity.routes[i].route.grades

\* the names of the routes the input pipe holds for the summits with these ids
InputRouteNames(summit_ids) ==
    {input_pipe.routes[route_id + 1].route_name :
        route_id \in UNION {Range(DictGet(input_pipe.routes2summits, summit_id)) :
                               summit_id \in summit_ids}}

\* C9: every written summit has one route per route name, and these are the
\* names of the routes of the input summits merged into it: routes of a name
\* were merged within a canonical summit and not across canonical summits.
C9_RouteNamesUnique ==
    mf_last.op = "write" =>
        \A k \in 1..Len(mf_last.written) :
            /\ DistinctNames(mf_last.written[k].routes)
            /\ RouteNames(mf_last.written[k].routes) = InputRouteNames(mf_last.written[k].obs)

-----------------------------------------------------------------------------
(* Properties of MergeFilter on posts, checked under SpecMergePosts *)

\* the posts of the output pipe under the routes named route_name of the
\* written summit k, in the order they are iterated
WrittenPosts(k, route_name) ==
    Flatten([i \in 1..Len(mf_last.written[k].routes) |->
                IF mf_last.written[k].routes[i].route.route_name = route_name
                THEN mf_last.written[k].routes[i].posts ELSE <<>>])

\* the posts the input pipe holds for a route of this name of a summit with one
\* of these ids, in the order of their observation
ObservedPosts(summit_ids, route_name) ==
    SelectSeq(input_pipe.posts,
              LAMBDA post :
                  \E route_id \in 0..(Len(input_pipe.routes) - 1) :
                      /\ input_pipe.routes[route_id + 1].route_name = route_name
                      /\ \E summit_id \in summit_ids :
                            route_id \in Range(DictGet(input_pipe.routes2summits, summit_id))
                      /\ \E n \in 1..Len(DictGet(input_pipe.posts2routes, route_id)) :
                            input_pipe.posts[DictGet(input_pipe.posts2routes, route_id)[n] + 1]
                                = post)

\* C10: the filter keeps every post and adds none: the posts written under a
\* route name of a written summit are the posts observed for routes of this
\* name on the input summits merged into it, each once, in observation order.
C10_PostsKept ==
    mf_last.op = "write" =>
        /\ Len(output_pipe.posts) = Len(input_pipe.posts)
        /\ \A k \in 1..Len(mf_last.written) :
              \A route_name \in RouteNames(mf_last.written[k].routes) :
                  WrittenPosts(k, route_name)
                      = ObservedPosts(mf_last.written[k].obs, route_name)

-----------------------------------------------------------------------------
(* Properties of DataValidationFilter, checked under SpecValidate *)

\* ids of the routes of a summit, in the order iter_routes_of_summit yields them
RouteIdsOf(pipe_read, summit_id) ==
    [i \in 1..Len(iter_routes_of_summit(pipe_read, summit_id)) |->
        iter_routes_of_summit(pipe_read, summit_id)[i][1]]

\* fix_invalid_data succeeds on the summit and on every one of its routes
FullyValid(pipe_read, summit_id, incomplete) ==
    /\ <<"summit", pipe_read.summits[summit_id + 1].oid>> \notin incomplete
    /\ \A route_id \in Range(RouteIdsOf(pipe_read, summit_id)) :
          <<"route", pipe_read.routes[route_id + 1].oid>> \notin incomplete

\* ids of the fully valid summits of the input pipe, in input order
ValidSummitIds(pipe_read, incomplete) ==
    SelectSeq([i \in 1..Len(pipe_read.summits) |-> i - 1],
              LAMBDA summit_id : FullyValid(pipe_read, summit_id, incomplete))

\* C12: the output pipe of the validation filter holds exactly the summits
\* that are valid with all their routes, in input order, each with all its
\* routes and their posts in insertion order; every other summit leaves
\* nothing in the output: no summit, no route, no post.
C12_ValidSummitsWritten ==
    mf_last.op = "validate" =>
        LET valid == ValidSummitIds(input_pipe, mf_last.incomplete)
        IN /\ Len(output_pipe.summits) = Len(valid)
           /\ \A k \in 1..Len(valid) :
                 LET in_routes == RouteIdsOf(input_pipe, valid[k])
                     out_routes == RouteIdsOf(output_pipe, k - 1)
                 IN /\ output_pipe.summits[k] = input_pipe.summits[valid[k] + 1]
                    /\ Len(out_routes) = Len(in_routes)
                    /\ \A j \in 1..Len(in_routes) :
                          /\ output_pipe.routes[out_routes[j] + 1]
                                = input_pipe.routes[in_routes[j] + 1]
                          /\ iter_posts_of_route(output_pipe, out_routes[j])
                                = iter_posts_of_route(input_pipe, in_routes[j])
           /\ Len(output_pipe.routes)
                 = Len(Flatten([k \in 1..Len(valid) |-> RouteIdsOf(input_pipe, valid[k])]))
           /\ Len(output_pipe.posts)
                 = Len(Flatten([n \in 1..Len(output_pipe.routes) |->
                                   iter_posts_of_route(output_pipe, n - 1)]))

\* a summit is dropped because of its second route although the summit, its
\* first route and the post of that route are fine, and the other summit of
\* the pipe is written
C12_Witness ==
    /\ mf_last.op = "validate"
    /\ Len(input_pipe.summits) = 2
    /\ Len(input_pipe.posts) = 1
    /\ Len(output_pipe.summits) = 1
    /\ output_pipe.routes = <<>>
    /\ output_pipe.posts = <<>>
    /\ <<"summit", 0>> \notin mf_last.incomplete
    /\ <<"summit", 1>> \notin mf_last.incomplete
    /\ \E summit_id \in 0..1 :
          /\ Len(RouteIdsOf(input_pipe, summit_id)) = 2
          /\ <<"route", RouteIdsOf(input_pipe, summit_id)[1]>> \notin mf_last.incomplete
          /\ <<"route", RouteIdsOf(input_pipe, summit_id)[2]>> \in mf_last.incomplete
          /\ iter_posts_of_route(input_pipe, RouteIdsOf(input_pipe, summit_id)[1]) # <<>>

-----------------------------------------------------------------------------
(* Properties of CollectedData, checked under SpecPipe *)

\* the successful calls of one operation with one parent id, in call order
CallsOf(op, parent) ==
    SelectSeq(cd_calls, LAMBDA c : c.op = op /\ c.parent = parent /\ c.raised = NoError)

\* the (returned id, entity) pairs of a list of calls
IdsAndEntities(calls) == [i \in 1..Len(calls) |-> <<calls[i].id, calls[i].entity>>]

\* the entities of a list of calls
EntitiesOf(calls) == [i \in 1..Len(calls) |-> calls[i].entity]

\* the ids add_summit / add_route handed out so far
HandedOutIds(op) == {c.id : c \in {d \in Range(cd_calls) : d.op = op /\ d.raised = NoError}}

\* C13: after any sequence of add_* calls, iter_summits yields every added
\* summit with the id add_summit returned, in insertion order;
\* iter_routes_of_summit(s) yields exactly the (id, route) pairs of the
\* add_route calls with parent s, in insertion order, with the returned ids;
\* iter_posts_of_route(r) yields exactly the posts added with parent r, in
\* insertion order; a read for an id never handed out yields nothing.
C13_IterationFollowsInsertion ==
    /\ iter_summits(cd_pipe) = IdsAndEntities(CallsOf("add_summit", -1))
    /\ \A s \in PassedIds :
          /\ iter_routes_of_summit(cd_pipe, s) = IdsAndEntities(CallsOf("add_route", s))
          /\ s \notin HandedOutIds("add_summit") => iter_routes_of_summit(cd_pipe, s) = <<>>
    /\ \A r \in PassedIds :
          /\ iter_posts_of_route(cd_pipe, r) = EntitiesOf(CallsOf("add_post", r))
          /\ r \notin HandedOutIds("add_route") => iter_posts_of_route(cd_pipe, r) = <<>>

\* two routes of summit 0, the second of them with a post, and reads for the
\* summit id 1 and the route id 2 that were never handed out
C13_Witness ==
    /\ Len(cd_pipe.summits) = 1
    /\ Len(iter_routes_of_summit(cd_pipe, 0)) = 2
    /\ Len(iter_posts_of_route(cd_pipe, 1)) = 1
    /\ iter_posts_of_route(cd_pipe, 0) = <<>>
    /\ iter_routes_of_summit(cd_pipe, 1) = <<>>
    /\ iter_posts_of_route(cd_pipe, 2) = <<>>

\* the ids an operation handed out in the calls before the i-th one
HandedOutBefore(op, i) ==
    {cd_calls[j].id : j \in {k \in 1..(i - 1) : cd_calls[k].op = op /\ cd_calls[k].raised = NoError}}

\* C14: add_route raises EntityNotFoundError when its summit id was not handed
\* out by this pipe before, add_post raises EntityNotFoundError when its route
\* id was not handed out by this pipe before; with a known parent id both
\* succeed.
C14_WritesValidateParent ==
    \A i \in 1..Len(cd_calls) :
        LET c == cd_calls[i]
        IN /\ c.op = "add_route" =>
                 IF c.parent \in HandedOutBefore("add_summit", i)
                 THEN c.raised = NoError
                 ELSE c.raised = <<"EntityNotFoundError", "Summit", c.parent>>
           /\ c.op = "add_post" =>
                 IF c.parent \in HandedOutBefore("add_route", i)
                 THEN c.raised = NoError
                 ELSE c.raised = <<"EntityNotFoundError", "Route", c.parent>>

\* add_route and add_post succeeded with a known parent id, and one of them
\* raised for a parent id that was not handed out
C14_Witness ==
    /\ \E i, j \in 1..Len(cd_calls) :
          /\ cd_calls[i].op = "add_route" /\ cd_calls[i].raised = NoError
          /\ cd_calls[j].op = "add_post" /\ cd_calls[j].raised = NoError
    /\ \E i \in 1..Len(cd_calls) :
          /\ cd_calls[i].op \in {"add_route", "add_post"}
          /\ cd_calls[i].raised # NoError

\* the successful calls of one operation, in call order
SuccessfulCalls(op) == SelectSeq(cd_calls, LAMBDA c : c.op = op /\ c.raised = NoError)

\* dense: the n-th added summit and the n-th added route get the id n - 1
DenseIds ==
    \A op \in {"add_summit", "add_route"} :
        \A n \in 1..Len(SuccessfulCalls(op)) : SuccessfulCalls(op)[n].id = n - 1

\* stable: every id handed out so far still denotes the entity it was handed
\* out for
StableIds ==
    /\ \A c \in Range(SuccessfulCalls("add_summit")) :
          <<c.id, c.entity>> \in Range(iter_summits(cd_pipe))
    /\ \A c \in Range(SuccessfulCalls("add_route")) :
          <<c.id, c.entity>> \in Range(iter_routes_of_summit(cd_pipe, c.parent))

\* C15 as stated: ids are dense, stable and no summit id handed out by the
\* pipe equals a route id handed out by the same pipe.
C15_DenseStableDisjoint ==
    /\ DenseIds
    /\ StableIds
    /\ HandedOutIds("add_summit") \cap HandedOutIds("add_route") = {}

\* C15: ids are dense and stable per entity kind; the summit ids and the route
\* ids are two index spaces that both start at 0, so the values handed out for
\* the two kinds coincide as far as both kinds have entities.
C15_DenseStablePerKind ==
    /\ DenseIds
    /\ StableIds
    /\ HandedOutIds("add_summit") = 0..(Len(cd_pipe.summits) - 1)
    /\ HandedOutIds("add_route") = 0..(Len(cd_pipe.routes) - 1)
    /\ HandedOutIds("add_summit") \cap HandedOutIds("add_route")
          = 0..(Min({Len(cd_pipe.summits), Len(cd_pipe.routes)}) - 1)

\* two summits and two routes were added, so both kinds hold the ids 0 and 1
C15_Witness ==
    /\ Len(cd_pipe.summits) = 2
    /\ Len(cd_pipe.routes) = 2
    /\ HandedOutIds("add_summit") \cap HandedOutIds("add_route") = {0, 1}

-----------------------------------------------------------------------------
(* Properties of DbSchemaV1Filter, checked under SpecWrite *)

\* the run of the WRITE filter is over, and it connected to the destination file
WriteConnected ==
    /\ db_last.op = "execute_sink_filter"
    /\ database.connections > db_last.before.connections

\* C16: whenever _execute_sink_filter has connected to the destination file,
\* disconnect() was called when the filter returns or raises: the connection
\* is closed and the boundary holds no handle.
C16_ReleasesConnection ==
    WriteConnected =>
        /\ ~is_connected(database)
        /\ database.connections \in Range(database.closed)

\* C16 for the runs in which sqlite itself rejects no call: the filter still
\* raises for a summit whose alternate names hold a name twice
C16_ReleasesWithoutRejection ==
    (WriteConnected /\ db_last.fail_at = 0) => ~is_connected(database)

\* the run of the WRITE filter is over and raised nothing
WriteSucceeded == db_last.op = "execute_sink_filter" /\ db_last.raised = NoError

\* the (name, usage) pairs of the summit_names rows of one summits row
NamesOf(summit_id) ==
    {<<row.name, row.usage>> :
        row \in {r \in Range(database.tables.summit_names) : r.summit_id = summit_id}}

\* the usage=1 rows C17 expects: one for each alternate name
AlternateRows(summit) == {<<name, NameUsage_alternate>> : name \in Range(summit.alternate_names)}

\* C17: for every summit the WRITE filter writes (the k-th summit of the pipe
\* is the summits row k), summit_names holds the row (official_name, 0) when
\* the official name is set, else the row (summit.name, 0), and one row
\* (name, 1) for each alternate name.
C17_NamesWritten ==
    WriteSucceeded =>
        \A k \in 1..Len(input_pipe.summits) :
            LET summit == input_pipe.summits[k]
            IN NamesOf(k) = {<<SummitName(summit), NameUsage_official>>}
                               \cup AlternateRows(summit)

\* C17 for the summits that have an official name only
C17_NamesOfOfficiallyNamed ==
    WriteSucceeded =>
        \A k \in 1..Len(input_pipe.summits) :
            LET summit == input_pipe.summits[k]
            IN summit.official_name # <<>> =>
                   NamesOf(k) = {<<summit.official_name, NameUsage_official>>}
                                   \cup AlternateRows(summit)

\* the routes rows of the summits row k, and the posts rows of a routes row
RouteRowsOf(k) == SelectSeq(database.tables.routes, LAMBDA row : row.summit_id = k)

PostRowsOf(route_row) ==
    SelectSeq(database.tables.posts, LAMBDA row : row.route_id = route_row.id)

\* the routes rows of the summits row k are the routes of the k-th summit of
\* the pipe, and the posts rows of each are the posts of that route
OwnRows(k) ==
    LET routes == iter_routes_of_summit(input_pipe, k - 1)
        rows == RouteRowsOf(k)
    IN /\ Len(rows) = Len(routes)
       /\ \A i \in 1..Len(routes) :
             LET posts == iter_posts_of_route(input_pipe, routes[i][1])
                 post_rows == PostRowsOf(rows[i])
             IN /\ rows[i].route_name = routes[i][2].route_name
                /\ Len(post_rows) = Len(posts)
                /\ \A j \in 1..Len(posts) : post_rows[j].data = posts[j].data

\* C29: after a successful WRITE every route of a summit of the input pipe is
\* a routes row with the summit_id of the summits row written for that summit
\* (the k-th summit of the pipe is the summits row k) and every post of a
\* route is a posts row with the route_id of the row written for that route:
\* none is lost, none is attached to the row of another summit or route.
C29_RowsOfOwnSummit ==
    WriteSucceeded => \A k \in 1..Len(input_pipe.summits) : OwnRows(k)

\* the names the summits of the pipe are called by differ, and so do the names
\* of the routes of each summit
DistinctlyNamed(pipe_read) ==
    /\ \A k, l \in 1..Len(pipe_read.summits) :
          SummitName(pipe_read.summits[k]) = SummitName(pipe_read.summits[l]) => k = l
    /\ \A k \in 1..Len(pipe_read.summits) :
          LET routes == iter_routes_of_summit(pipe_read, k - 1)
          IN \A i, j \in 1..Len(routes) :
                routes[i][2].route_name = routes[j][2].route_name => i = j

\* C29 on the pipes without namesakes
C29_RowsOfDistinctlyNamed ==
    (WriteSucceeded /\ DistinctlyNamed(input_pipe)) =>
        \A k \in 1..Len(input_pipe.summits) : OwnRows(k)

\* the ids of the rows of a table
RowIds(table) == {row.id : row \in Range(table)}

\* C18: after a successful WRITE the number of summit_names rows with usage=0
\* equals the number of summits of the input pipe, every routes row refers to
\* an existing summits row and every posts row to an existing routes row.
C18_TablesConsistent ==
    WriteSucceeded =>
        /\ Len(SelectSeq(database.tables.summit_names, LAMBDA row : row.usage = 0))
              = Len(input_pipe.summits)
        /\ \A route \in Range(database.tables.routes) :
              route.summit_id \in RowIds(database.tables.summits)
        /\ \A post \in Range(database.tables.posts) :
              post.route_id \in RowIds(database.tables.routes)

\* a successful WRITE of a summit that has an alternate name, a route and a post
C18_Witness ==
    /\ WriteSucceeded
    /\ \E row \in Range(database.tables.summit_names) : row.usage = 1
    /\ database.tables.routes # <<>>
    /\ database.tables.posts # <<>>

\* what the run issued, in order: the entries the log gained
IssuedByRun == SubSeq(database.log, Len(db_last.before.log) + 1, Len(database.log))

TextsOf(log) == [i \in 1..Len(log) |-> log[i][2]]

\* the INSERT statements for the rows of the posts of a route, of the routes
\* of a summit and of the summits of a pipe, in the order the pipe iterates
RowInsertsOfRoute(pipe_read, route_id) ==
    <<"INSERT OR IGNORE INTO routes">>
        \o [i \in 1..Len(iter_posts_of_route(pipe_read, route_id)) |->
               "INSERT OR IGNORE INTO posts"]

RowInsertsOfSummit(pipe_read, summit_id) ==
    LET routes == iter_routes_of_summit(pipe_read, summit_id)
    IN <<"INSERT INTO summits">>
           \o Flatten([i \in 1..Len(routes) |-> RowInsertsOfRoute(pipe_read, routes[i][1])])

RowInserts(pipe_read) ==
    LET summits == iter_summits(pipe_read)
    IN Flatten([i \in 1..Len(summits) |-> RowInsertsOfSummit(pipe_read, summits[i][1])])

\* the statements that write or read back the rows of the entities
EntityStatements ==
    {"INSERT INTO summits", "SELECT last_insert_rowid() as rowid", "INSERT INTO summit_names",
     "INSERT OR IGNORE INTO routes", "INSERT OR IGNORE INTO posts"}

\* C25: a successful run of the WRITE filter connects to the destination
\* file, overwriting it, then creates the schema, inserts the metadata row,
\* inserts the rows of the summits, routes and posts in the order the pipe
\* iterates them, executes ANALYZE, then VACUUM, and disconnects once; all of
\* it happens on the connection the run opened, nothing before the connect
\* and nothing after the disconnect.
C25_WriteOrder ==
    WriteSucceeded =>
        LET handle == db_last.before.connections + 1
            issued == TextsOf(IssuedByRun)
            schema == Len(ConnectPragmas) + Len(SchemaStatements)
            rows == SubSeq(issued, schema + 2, Len(issued) - 3)
        IN /\ database.connections = handle
           /\ \A i \in 1..Len(IssuedByRun) : IssuedByRun[i][1] = handle
           /\ SubSeq(issued, 1, Len(ConnectPragmas)) = ConnectPragmas
           /\ SubSeq(issued, Len(ConnectPragmas) + 1, schema) =
                 [i \in 1..Len(SchemaStatements) |-> SchemaStatements[i].text]
           /\ issued[schema + 1] = "INSERT OR IGNORE INTO database_metadata"
           /\ Range(rows) \subseteq EntityStatements
           /\ SelectSeq(rows, LAMBDA text : text \in Range(RowInserts(input_pipe)))
                 = RowInserts(input_pipe)
           /\ SubSeq(issued, Len(issued) - 2, Len(issued)) = <<"ANALYZE", "VACUUM", "close">>
           /\ database.closed = Append(db_last.before.closed, handle)
           /\ ~is_connected(database)
           /\ database.file_exists

\* a successful WRITE over an existing file, of a summit with a route and a
\* summit that came after it
C25_Witness ==
    /\ WriteSucceeded
    /\ db_last.before.file_exists
    /\ Len(input_pipe.summits) = 2
    /\ iter_routes_of_summit(input_pipe, 0) # <<>>

-----------------------------------------------------------------------------
(* Properties of the list of the summit merger, checked under SpecMergeNames *)

\* the pairs of different canonical summits in the list `entities` that have a
\* normalized name in common
Namesakes(entities) ==
    {pair \in (1..Len(entities)) \X (1..Len(entities)) :
        /\ pair[1] # pair[2]
        /\ get_all_normalized_names(entities[pair[1]].summit)
              \cap get_all_normalized_names(entities[pair[2]].summit) # {}}

\* C28: after every merge_entity call of the summit merger that returns
\* normally, no two different canonical summits match each other: none have a
\* normalized name in common while one of the positions is UNDEFINED_GEOPOSITION
\* or the two are within 200 m, whatever the call merged into them.
C28_ClosedUnderMatching ==
    (mf_last.op = "merge_entity" /\ mf_last.raised = NoError) =>
        \A pair \in Namesakes(merged_summit_data) :
            ~SummitMerger_is_same(merged_summit_data[pair[1]], merged_summit_data[pair[2]])

\* a call has returned normally that left two canonical summits which had no
\* name in common before it and have one now
C28_Witness ==
    /\ mf_last.op = "merge_entity"
    /\ mf_last.raised = NoError
    /\ Len(mf_last.before) = 2
    /\ Namesakes(mf_last.before) = {}
    /\ Len(merged_summit_data) = 2
    /\ Namesakes(merged_summit_data) # {}

-----------------------------------------------------------------------------
(* Properties of MergingPipeDecorator, checked under SpecDecoratorRoutes *)

\* the object of an accepted call was passed to the delegate by the same operation
Forwarded(accepted) ==
    \E i \in 1..Len(delegate) :
        delegate[i].op = accepted.op /\ delegate[i].oid = accepted.oid

AcceptedCalls == {dec_accepted[i] : i \in 1..Len(dec_accepted)}

\* C30: when finalize_pipe has returned, every route that add_or_enrich_route
\* accepted and every post that add_post accepted has been passed to the
\* delegate pipe, whatever calls came before or after it.
C30_AcceptedForwarded ==
    dec_last.op = "finalize_pipe" => \A accepted \in AcceptedCalls : Forwarded(accepted)

\* C30 for the routes alone
C30_RoutesForwarded ==
    dec_last.op = "finalize_pipe" =>
        \A accepted \in AcceptedCalls :
            accepted.op = "add_or_enrich_route" => Forwarded(accepted)

\* the normalized names of the summits finalize_pipe found collected
FinalKeys == {Summit_normalized_name(dec_last.summits[i]) : i \in 1..Len(dec_last.summits)}

\* C30 for what is filed under the normalized name a collected summit still
\* has at finalize_pipe: every such route, and every such post of a route
\* name under which a route is filed there
C30_ForwardedUnderFinalKeys ==
    dec_last.op = "finalize_pipe" =>
        \A accepted \in AcceptedCalls :
            (/\ accepted.key \in FinalKeys
             /\ \E route \in AcceptedCalls :
                   /\ route.op = "add_or_enrich_route"
                   /\ route.key = accepted.key
                   /\ route.route_name = accepted.route_name)
                => Forwarded(accepted)

-----------------------------------------------------------------------------
(* Properties of UniqueIdentifier, checked under SpecNormalize *)

\* C27: normalizing is idempotent: the UniqueIdentifier created from the
\* string of a UniqueIdentifier is equal to it (and has the same string).
C27_NormalizationIdempotent ==
    \A i \in 2..Len(identifiers) : identifiers[i] = identifiers[1]

\* "b,A" has been normalized to "a_b", and "a_b" has been normalized again
C27_Witness ==
    /\ nn_name = <<98, 44, 65>>
    /\ Len(identifiers) = 2
    /\ identifiers[1] = <<97, 95, 98>>

-----------------------------------------------------------------------------
(* Properties of the teufelsturm filter, checked under SpecTeufelsturm *)

\* the peak names of the pages that were parsed, without the forbidden ones
ScannedPeakNames ==
    {ts_pages[i].peak_name : i \in {k \in 1..Len(ts_pages) : ts_pages[k].kind = "PageData"}}
        \ forbidden_summit_names

\* the add_summit calls made for a summit with this name
AddSummitCalls(peak_name) ==
    SelectSeq(cd_calls,
              LAMBDA c : c.op = "add_summit" /\ SummitName(c.entity) = peak_name)

\* the add_route calls made for the pages of a summit with this name (the
\* route of a page carries the index of the page)
AddRouteCalls(peak_name) ==
    SelectSeq(cd_calls,
              LAMBDA c : c.op = "add_route"
                            /\ ts_pages[c.entity.oid + 1].peak_name = peak_name)

PagesOf(peak_name) ==
    {i \in 1..Len(ts_pages) : ts_pages[i].kind = "PageData" /\ ts_pages[i].peak_name = peak_name}

\* C26: within one run add_summit is called exactly once for every name of a
\* summit that is not forbidden and was seen on a parsed page, and the route
\* of every page of that summit is added under the id that call returned;
\* nothing is added for a forbidden summit.
C26_SummitAddedOnce ==
    /\ \A peak_name \in ScannedPeakNames :
          /\ Len(AddSummitCalls(peak_name)) = 1
          /\ Len(AddRouteCalls(peak_name)) = Cardinality(PagesOf(peak_name))
          /\ \A i \in 1..Len(AddRouteCalls(peak_name)) :
                /\ AddRouteCalls(peak_name)[i].parent = AddSummitCalls(peak_name)[1].id
                /\ AddRouteCalls(peak_name)[i].raised = NoError
    /\ \A peak_name \in PeakNames \cap forbidden_summit_names :
          AddSummitCalls(peak_name) = <<>> /\ AddRouteCalls(peak_name) = <<>>

\* hash() gives the names of the pages different values
DistinctHashes ==
    \A n, m \in ScannedPeakNames : str_hash[n] = str_hash[m] => n = m

\* C26 for the runs in which no two names have the same hash
C26_AddedOncePerHash == DistinctHashes => C26_SummitAddedOnce

-----------------------------------------------------------------------------
(* Properties of Sqlite3Database, checked under SpecDatabase *)

\* the last call issued exactly this statement on the connection it found,
\* and nothing else
IssuedOnly(text) ==
    database.log = Append(db_last.before.log, <<db_last.before.db_handle, text>>)

\* C19: entering the scope on a connected database issues BEGIN; leaving it
\* normally issues COMMIT; leaving it because of an error issues ROLLBACK, never
\* COMMIT, and the error propagates; entering or leaving the scope while not
\* connected raises InvalidStateError.
C19_ScopedTransaction ==
    /\ db_last.op = "enter" =>
          IF is_connected(db_last.before)
          THEN IssuedOnly("BEGIN TRANSACTION")
          ELSE db_last.raised = InvalidStateError /\ database = db_last.before
    /\ db_last.op = "exit" =>
          IF ~is_connected(db_last.before)
          THEN db_last.raised = InvalidStateError /\ database = db_last.before
          ELSE IF db_last.arg = NoError
          THEN IssuedOnly("COMMIT TRANSACTION")
          ELSE IssuedOnly("ROLLBACK TRANSACTION") /\ db_last.raised # NoError

\* a scope was entered, a statement was executed in it and an error left it
C19_Witness ==
    /\ db_last.op = "exit" /\ db_last.arg # NoError /\ db_last.raised = db_last.arg
    /\ \E handle \in 1..database.connections :
          IssuedStatements(database) =
              <<<<handle, "BEGIN TRANSACTION">>, <<handle, "ANALYZE">>,
                <<handle, "ROLLBACK TRANSACTION">>>>

\* disconnect() is idempotent: on a connected database it closes the connection
\* once and leaves the database disconnected, on a disconnected one it does nothing
DisconnectIdempotent ==
    db_last.op = "disconnect" =>
        /\ db_last.raised = NoError
        /\ ~is_connected(database)
        /\ IF is_connected(db_last.before)
           THEN /\ database.closed = Append(db_last.before.closed, db_last.before.db_handle)
                /\ \A i, j \in 1..Len(database.closed) :
                      database.closed[i] = database.closed[j] => i = j
           ELSE database = db_last.before

\* execute_write and execute_read raise InvalidStateError whenever the database
\* is not connected
ExecuteNeedsConnection ==
    (db_last.op \in {"execute_write", "execute_read"} /\ ~is_connected(db_last.before)) =>
        db_last.raised = InvalidStateError /\ database = db_last.before

\* the last call was connect(overwrite=False) on an existing destination file
ConnectOnExistingFile ==
    db_last.op = "connect" /\ db_last.arg = FALSE /\ db_last.before.file_exists

\* C20 as stated: disconnect() is idempotent, execute_* raise InvalidStateError
\* while not connected, and connect with overwrite=false on an existing
\* destination file fails and leaves the database not connected.
C20_FailedConnectDisconnects ==
    /\ DisconnectIdempotent
    /\ ExecuteNeedsConnection
    /\ ConnectOnExistingFile =>
          db_last.raised = <<"FileExistsError">> /\ ~is_connected(database)

\* C20: disconnect() is idempotent, execute_* raise InvalidStateError while not
\* connected, and connect with overwrite=false on an existing destination file
\* fails and leaves the connection state as it was: a database that was not
\* connected stays not connected, a connected one keeps its connection.
C20_FailedConnectKeepsState ==
    /\ DisconnectIdempotent
    /\ ExecuteNeedsConnection
    /\ ConnectOnExistingFile =>
          db_last.raised = <<"FileExistsError">> /\ database = db_last.before

\* connect(overwrite=False) failed on the file of the connection that is still
\* open, after an earlier connection was closed by disconnect()
C20_Witness ==
    /\ ConnectOnExistingFile
    /\ is_connected(database)
    /\ database.closed # <<>>

=============================================================================
